---------------------------- MODULE Spec2Model ----------------------------
(***************************************************************************)
(* A state-machine model of the VANTAGE governance and reasoning core:     *)
(* campaign state (core/state), exposure tracker (core/exposure), intent   *)
(* contract validation (core/intent), ROE enforcement (core/roe), evidence *)
(* signing (core/evidence), the executor engine (core/executor) and the    *)
(* reasoning engine's cycle orchestration (core/reasoning).                *)
(***************************************************************************)
EXTENDS Integers, Sequences, FiniteSets, TLC

(***************************************************************************)
(* Bounds of the model.                                                    *)
(***************************************************************************)
\* width in bits of the unsigned counters (uint64 in the source)
UintBits == 5
\* the clock runs over 1..MaxTime; 0 is the zero time.Time
MaxTime == 3
\* cap on the campaign's execution counter
MaxExecutions == 5
\* cap on the edge list of the orchestrator's graph before a cycle may start
MaxEdges == 2

Modulus == 2 ^ UintBits

(***************************************************************************)
(* Program constants.                                                      *)
(***************************************************************************)
\* engine.go: const executionExposure uint64 = 10
executionExposure == 10

StatusInitialized == "initialized"
StatusRunning == "running"
StatusHalted == "halted"
StatusCompleted == "completed"
Statuses == {StatusInitialized, StatusRunning, StatusHalted, StatusCompleted}

\* the nil error
OK == ""

(***************************************************************************)
(* Option values: a nil pointer is the empty sequence.                     *)
(***************************************************************************)
None == <<>>
Some(x) == <<x>>

(***************************************************************************)
(* Campaign state: core/state/state.go.  Each method is a function from    *)
(* the campaign record to the new record and the returned error.           *)
(***************************************************************************)
NewCampaign == [status |-> StatusInitialized, executions |-> 0]

\* a faulty Start that restarts a campaign whatever its status
CampaignStartAny(c) ==
    [c |-> [c EXCEPT !.status = StatusRunning], err |-> OK]

CampaignStart(c) ==
    IF c.status # StatusInitialized
    THEN [c |-> c, err |-> "cannot start campaign"]
    ELSE [c |-> [c EXCEPT !.status = StatusRunning], err |-> OK]

\* a faulty RecordExecution that counts whatever the status
CampaignRecordExecutionAny(c) ==
    [c |-> [c EXCEPT !.executions = (c.executions + 1) % Modulus], err |-> OK]

\* a faulty RecordExecution that counts an execution twice
CampaignRecordExecutionTwice(c) ==
    IF c.status # StatusRunning
    THEN [c |-> c, err |-> "cannot record execution"]
    ELSE [c |-> [c EXCEPT !.executions = (c.executions + 2) % Modulus], err |-> OK]

CampaignRecordExecution(c) ==
    IF c.status # StatusRunning
    THEN [c |-> c, err |-> "cannot record execution"]
    ELSE [c |-> [c EXCEPT !.executions = (c.executions + 1) % Modulus], err |-> OK]

\* a faulty Halt that reports success and changes nothing
CampaignHaltNoop(c) == [c |-> c, err |-> OK]

CampaignHalt(c) ==
    IF c.status = StatusCompleted
    THEN [c |-> c, err |-> "cannot halt a completed campaign"]
    ELSE IF c.status = StatusHalted
    THEN [c |-> c, err |-> OK]
    ELSE [c |-> [c EXCEPT !.status = StatusHalted], err |-> OK]

CampaignComplete(c) ==
    IF c.status # StatusRunning
    THEN [c |-> c, err |-> "cannot complete campaign"]
    ELSE [c |-> [c EXCEPT !.status = StatusCompleted], err |-> OK]

(***************************************************************************)
(* Exposure tracker: core/exposure/exposure.go.                            *)
(***************************************************************************)
NewTracker(maxScore) == [maxScore |-> maxScore, score |-> 0, halted |-> FALSE]

\* a faulty Add that latches only above maxScore
TrackerAddLate(t, delta) ==
    IF delta = 0
    THEN [t |-> t, err |-> "exposure delta must be > 0"]
    ELSE IF t.halted
    THEN [t |-> t, err |-> "exposure already exceeded; execution halted"]
    ELSE LET s == (t.score + delta) % Modulus
         IN  [t |-> [t EXCEPT !.score = s, !.halted = (s > t.maxScore)], err |-> OK]

\* a faulty Add that does not refuse a halted tracker
TrackerAddUnlatched(t, delta) ==
    IF delta = 0
    THEN [t |-> t, err |-> "exposure delta must be > 0"]
    ELSE LET s == (t.score + delta) % Modulus
         IN  [t |-> [t EXCEPT !.score = s, !.halted = (s >= t.maxScore)], err |-> OK]

TrackerAdd(t, delta) ==
    IF delta = 0
    THEN [t |-> t, err |-> "exposure delta must be > 0"]
    ELSE IF t.halted
    THEN [t |-> t, err |-> "exposure already exceeded; execution halted"]
    ELSE LET s == (t.score + delta) % Modulus
         IN  [t |-> [t EXCEPT !.score = s,
                              !.halted = (s >= t.maxScore)],
              err |-> OK]

LevelLow == "low"
LevelMedium == "medium"
LevelHigh == "high"
LevelCritical == "critical"

\* a faulty Level that tests the high threshold before the critical one
TrackerLevelHighFirst(t) ==
    IF t.score >= ((t.maxScore * 3) % Modulus) \div 4 THEN LevelHigh
    ELSE IF t.score >= t.maxScore THEN LevelCritical
    ELSE IF t.score >= t.maxScore \div 2 THEN LevelMedium
    ELSE LevelLow

TrackerLevel(t) ==
    IF t.score >= t.maxScore THEN LevelCritical
    ELSE IF t.score >= ((t.maxScore * 3) % Modulus) \div 4 THEN LevelHigh
    ELSE IF t.score >= t.maxScore \div 2 THEN LevelMedium
    ELSE LevelLow


(***************************************************************************)
(* Intent contract: core/intent (Contract, Validate).  A time is a number  *)
(* in 0..MaxTime, 0 being the zero time.Time; a nil *Contract is the       *)
(* record whose nil field is TRUE.                                         *)
(***************************************************************************)
TechniqueIDs == {"", "T1046", "T1595"}
TargetIDs == {"", "host-1", "host-2"}
TechLists == {<<>>, <<"T1595">>, <<"T1046">>, <<"T1046", "T1595">>, <<"T1595", "">>}
TargetLists == {<<>>, <<"host-1">>, <<"host-1", "host-2">>, <<"">>}
Times == 0..MaxTime

NilContract ==
    [nil |-> TRUE, CampaignID |-> "", Objective |-> "", AllowedTechniques |-> <<>>,
     Targets |-> <<>>, NotBefore |-> 0, NotAfter |-> 0]

Contracts ==
    [nil : {FALSE}, CampaignID : {"", "camp-1"}, Objective : {"", "validate exposure"},
     AllowedTechniques : TechLists, Targets : TargetLists,
     NotBefore : Times, NotAfter : Times]

ContractInputs == Contracts \cup {NilContract}

\* a valid contract, and its variants that differ from it in one field
BaseContract ==
    [nil |-> FALSE, CampaignID |-> "camp-1", Objective |-> "validate exposure",
     AllowedTechniques |-> <<"T1595">>, Targets |-> <<"host-1">>,
     NotBefore |-> 1, NotAfter |-> MaxTime]

ContractSamples ==
    {NilContract, BaseContract,
     [BaseContract EXCEPT !.CampaignID = ""],
     [BaseContract EXCEPT !.Objective = ""],
     [BaseContract EXCEPT !.AllowedTechniques = <<>>],
     [BaseContract EXCEPT !.AllowedTechniques = <<"T1595", "">>],
     [BaseContract EXCEPT !.AllowedTechniques = <<"T1046">>],
     [BaseContract EXCEPT !.Targets = <<>>],
     [BaseContract EXCEPT !.Targets = <<"">>],
     [BaseContract EXCEPT !.NotBefore = 0],
     [BaseContract EXCEPT !.NotAfter = 0],
     [BaseContract EXCEPT !.NotBefore = MaxTime],
     [BaseContract EXCEPT !.NotBefore = 2],
     [BaseContract EXCEPT !.NotAfter = 2]}

Contains(list, x) == \E i \in 1..Len(list) : list[i] = x

ContractValidate(c, t) ==
    IF c.nil THEN "intent contract is nil"
    ELSE IF c.CampaignID = "" THEN "intent contract missing campaign_id"
    ELSE IF c.Objective = "" THEN "intent contract missing objective"
    ELSE IF Len(c.AllowedTechniques) = 0 THEN "intent contract defines no allowed techniques"
    ELSE IF Contains(c.AllowedTechniques, "") THEN "intent contract contains empty technique ID"
    ELSE IF Len(c.Targets) = 0 THEN "intent contract defines no targets"
    ELSE IF Contains(c.Targets, "") THEN "intent contract contains empty target"
    ELSE IF c.NotBefore = 0 THEN "intent contract missing not_before timestamp"
    ELSE IF c.NotAfter = 0 THEN "intent contract missing not_after timestamp"
    ELSE IF ~(c.NotAfter > c.NotBefore) THEN "intent contract has invalid time window"
    ELSE IF t < c.NotBefore \/ t > c.NotAfter THEN "intent contract not currently valid"
    ELSE OK

(***************************************************************************)
(* ROE enforcement: core/roe (allowedTechniques, Enforce).                 *)
(***************************************************************************)
allowedTechniques == {"T1595"}

\* a faulty Enforce that does not look at the time window
EnforceNoWindow(c, techniqueID, target, t) ==
    IF c.nil THEN "ROE violation: nil intent contract"
    ELSE IF techniqueID = "" THEN "ROE violation: empty technique ID"
    ELSE IF target = "" THEN "ROE violation: empty target"
    ELSE IF techniqueID \notin allowedTechniques
    THEN "ROE violation: technique not permitted by policy"
    ELSE IF ~Contains(c.AllowedTechniques, techniqueID)
    THEN "ROE violation: technique not declared in intent"
    ELSE IF ~Contains(c.Targets, target)
    THEN "ROE violation: target not declared in intent"
    ELSE OK

Enforce(c, techniqueID, target, t) ==
    IF c.nil THEN "ROE violation: nil intent contract"
    ELSE IF techniqueID = "" THEN "ROE violation: empty technique ID"
    ELSE IF target = "" THEN "ROE violation: empty target"
    ELSE IF techniqueID \notin allowedTechniques
    THEN "ROE violation: technique not permitted by policy"
    ELSE IF ~Contains(c.AllowedTechniques, techniqueID)
    THEN "ROE violation: technique not declared in intent"
    ELSE IF ~Contains(c.Targets, target)
    THEN "ROE violation: target not declared in intent"
    ELSE IF t < c.NotBefore \/ t > c.NotAfter
    THEN "ROE violation: execution outside intent window"
    ELSE OK

(***************************************************************************)
(* Evidence artifacts: core/evidence (Artifact.Validate, Sign, Verify,     *)
(* canonicalPayload).  SHA-256 is modelled as an injective function of the *)
(* canonical payload: the digest of a payload is the payload itself,       *)
(* wrapped; the unsigned Integrity "" is the empty sequence.  Output, the  *)
(* raw output of the execution, is a sequence of bytes; the identifiers    *)
(* are valid text and ExecutedAt a UTC instant, which json.Marshal writes  *)
(* one-to-one.                                                             *)
(***************************************************************************)
\* bytes that occur in no valid UTF-8 encoding
InvalidBytes == {254, 255}

\* json.Marshal of a string: valid text is written as it is (escaped
\* one-to-one), every invalid byte as the escape \ufffd, here 65533
jsonString(s) == [i \in 1..Len(s) |-> IF s[i] \in InvalidBytes THEN 65533 ELSE s[i]]

canonicalPayload(a) ==
    [ArtifactID |-> a.ArtifactID, CampaignID |-> a.CampaignID,
     TechniqueID |-> a.TechniqueID, Target |-> a.Target,
     ExecutedAt |-> a.ExecutedAt, Success |-> a.Success,
     Output |-> jsonString(a.Output), ExposureScore |-> a.ExposureScore]

Sum256(payload) == <<payload>>

ArtifactValidate(a) ==
    IF a.ArtifactID = 0 THEN "artifact missing artifact_id"
    ELSE IF a.CampaignID = "" THEN "artifact missing campaign_id"
    ELSE IF a.TechniqueID = "" THEN "artifact missing technique_id"
    ELSE IF a.Target = "" THEN "artifact missing target"
    ELSE IF a.ExecutedAt = 0 THEN "artifact missing execution timestamp"
    ELSE OK

ArtifactSign(a) ==
    IF ArtifactValidate(a) # OK THEN [a |-> a, err |-> ArtifactValidate(a)]
    ELSE IF a.Integrity # <<>> THEN [a |-> a, err |-> "artifact already signed"]
    ELSE [a |-> [a EXCEPT !.Integrity = Sum256(canonicalPayload(a))], err |-> OK]

ArtifactVerify(a) ==
    IF a.Integrity = <<>> THEN [ok |-> FALSE, err |-> "artifact not signed"]
    ELSE [ok |-> (a.Integrity = Sum256(canonicalPayload(a))), err |-> OK]

(***************************************************************************)
(* Technique registry: techniques/registry.go (Get, List) and the one      *)
(* technique that registers itself, techniques/t1595 (Resolve).            *)
(***************************************************************************)
Registrable == {"T1595"}

TechniquesGet(reg, id) ==
    IF id = "" THEN "invalid technique ID: empty string"
    ELSE IF id \notin reg THEN "technique not registered"
    ELSE OK

\* Technique1595.Resolve: the resolution (None for a nil *Resolution) and the error
T1595Resolve(inputTechniqueID, domains, categories, budget) ==
    IF inputTechniqueID # "T1595"
    THEN [res |-> None, err |-> "techniques/t1595: technique ID mismatch"]
    ELSE IF ~(\E d \in domains : d \in {"discovery", "enumeration"})
    THEN [res |-> Some([AllowedActionClasses |-> <<>>]), err |-> OK]
    ELSE IF "active_non_invasive" \notin categories
    THEN [res |-> Some([AllowedActionClasses |-> <<>>]), err |-> OK]
    ELSE [res |-> Some([AllowedActionClasses |->
                          <<"AC-03">>
                          \o (IF budget \in {LevelMedium, LevelHigh} THEN <<"AC-02">> ELSE <<>>)
                          \o (IF budget = LevelHigh THEN <<"AC-04", "AC-05">> ELSE <<>>)]),
          err |-> OK]

(***************************************************************************)
(* Typed graph store: core/reasoning (Graph, UpsertNode, AddEdge,          *)
(* NodesByType).  A node id is a record standing for the formatted string: *)
(*   [k |-> "ev",   n, t]     for  "ev-<n>-<t>"     (n a UnixNano reading)  *)
(*   [k |-> "hyp",  h, n, t]  for  "hyp-<h>-ev-<n>-<t>"                     *)
(*   [k |-> "tech", t]        for  "tech-<t>"                               *)
(* with the unused fields 0 or "".  Ids of one kind with distinct n sort   *)
(* by n, as the decimal UnixNano strings of equal length do.               *)
(***************************************************************************)
NodeTypeEvidence == "evidence"
NodeTypeHypothesis == "hypothesis"
NodeTypeAttackPath == "attack_path"
NodeTypeTechnique == "technique"

EdgeTypeSupports == "supports"
EdgeTypeEnables == "enables"
EdgeTypeRefines == "refines"

EmptyID == [k |-> "", h |-> 0, n |-> 0, t |-> ""]
EvidenceID(nano, techniqueID) == [k |-> "ev", h |-> 0, n |-> nano, t |-> techniqueID]
HypothesisID(idx, nodeID) == [k |-> "hyp", h |-> idx, n |-> nodeID.n, t |-> nodeID.t]
TechniqueNodeID(techniqueID) == [k |-> "tech", h |-> 0, n |-> 0, t |-> techniqueID]

NewGraph == [nodes |-> {}, edges |-> <<>>]

NodeIDs(g) == {nd.id : nd \in g.nodes}

\* node: [id, type, success, confidence]: success and confidence are the metadata
\* entries ("" and 0 when absent); labels and creation stamps are left out, no
\* operation reads them back
UpsertNode(g, node) ==
    IF node.id = EmptyID THEN g
    ELSE [g EXCEPT !.nodes = {nd \in g.nodes : nd.id # node.id} \cup {node}]

\* a faulty AddEdge that looks up the From endpoint only
AddEdgeFromOnly(g, edge) ==
    IF edge.from = EmptyID \/ edge.to = EmptyID THEN [g |-> g, err |-> "invalid edge"]
    ELSE IF edge.from \notin NodeIDs(g) THEN [g |-> g, err |-> "from node not found"]
    ELSE [g |-> [g EXCEPT !.edges = Append(g.edges, edge)], err |-> OK]

\* edge: [from, to, type, weight]
AddEdge(g, edge) ==
    IF edge.from = EmptyID \/ edge.to = EmptyID THEN [g |-> g, err |-> "invalid edge"]
    ELSE IF edge.from \notin NodeIDs(g) THEN [g |-> g, err |-> "from node not found"]
    ELSE IF edge.to \notin NodeIDs(g) THEN [g |-> g, err |-> "to node not found"]
    ELSE [g |-> [g EXCEPT !.edges = Append(g.edges, edge)], err |-> OK]

\* byte order of the technique id strings
TechRank(id) == IF id = "" THEN 0 ELSE IF id = "T1046" THEN 1 ELSE 2

\* the nodes of a set in ascending id order (sort.Slice on ID): by the
\* number in the id, then by the technique id that follows it
RECURSIVE SortByID(_)
SortByID(nds) ==
    IF nds = {} THEN <<>>
    ELSE LET first == CHOOSE nd \in nds :
                          \A other \in nds :
                              \/ nd.id.n < other.id.n
                              \/ /\ nd.id.n = other.id.n
                                 /\ TechRank(nd.id.t) <= TechRank(other.id.t)
         IN  <<first>> \o SortByID(nds \ {first})

NodesByType(g, nodeType) == SortByID({nd \in g.nodes : nd.type = nodeType})

(***************************************************************************)
(* Hypothesis generation: core/reasoning (GenerateHypotheses).             *)
(* Confidences are in hundredths.                                          *)
(***************************************************************************)
HypothesesOf(evidenceNodes) ==
    [idx \in 1..Len(evidenceNodes) |->
        [ID |-> HypothesisID(idx, evidenceNodes[idx].id),
         ActionClassID |-> "",
         SupportingNodeIDs |-> <<evidenceNodes[idx].id>>,
         Confidence |-> IF evidenceNodes[idx].success = "true" THEN 80 ELSE 50]]

GenerateHypotheses(g) == HypothesesOf(NodesByType(g, NodeTypeEvidence))

(***************************************************************************)
(* Technique effects and the planner: core/reasoning (effectRegistry,      *)
(* ScoreTechnique, Planner.RankedActions).  Factors are in hundredths and  *)
(* a score in ten-thousandths.  An effect is [ActionClassID, Impact, Risk, *)
(* Stealth].                                                               *)
(***************************************************************************)
DefaultEffect == [ActionClassID |-> "", Impact |-> 60, Risk |-> 40, Stealth |-> 50]
StrongEffect == [ActionClassID |-> "", Impact |-> 90, Risk |-> 10, Stealth |-> 80]

ImpactWeight == 50
RiskWeight == 20
StealthWeight == 30

ScoreTechnique(effect) ==
    (effect.Impact * ImpactWeight) + ((100 - effect.Risk) * RiskWeight)
        + (effect.Stealth * StealthWeight)

IDsOf(known) == [i \in 1..Len(known) |-> known[i].id.t]

\* the registered ids in ascending order (sort.Strings)
KnownTechniques(effects) ==
    IDsOf(SortByID({[id |-> [k |-> "", h |-> 0, n |-> TechRank(id), t |-> id]] :
                       id \in DOMAIN effects}))

RankedBefore(a, b) ==
    IF a.Score = b.Score THEN TechRank(a.TechniqueID) < TechRank(b.TechniqueID)
    ELSE a.Score > b.Score

RECURSIVE SortRanked(_)
SortRanked(out) ==
    IF Len(out) = 0 THEN <<>>
    ELSE LET i == CHOOSE i \in 1..Len(out) :
                      \A j \in 1..Len(out) : ~RankedBefore(out[j], out[i])
             rest == [j \in 1..(Len(out) - 1) |-> IF j < i THEN out[j] ELSE out[j + 1]]
         IN  <<out[i]>> \o SortRanked(rest)

RECURSIVE ScoreAll(_, _, _)
ScoreAll(ids, target, effects) ==
    IF Len(ids) = 0 THEN <<>>
    ELSE LET id == Head(ids)
             rest == ScoreAll(Tail(ids), target, effects)
         IN  IF id \notin DOMAIN effects THEN rest
             ELSE <<[TechniqueID |-> id, ActionClassID |-> effects[id].ActionClassID,
                     Target |-> target,
                     Score |-> ScoreTechnique(effects[id])]>> \o rest

TechniquesToScore(query, effects) ==
    IF Len(query.AllowedTechniques) = 0 THEN KnownTechniques(effects)
    ELSE query.AllowedTechniques

Truncate(out, topN) == IF topN > 0 /\ Len(out) > topN THEN SubSeq(out, 1, topN) ELSE out

RankedActions(query, effects) ==
    Truncate(SortRanked(ScoreAll(TechniquesToScore(query, effects), query.Target, effects)),
             query.TopN)

(***************************************************************************)
(* Reasoning engine: core/reasoning (Engine.IngestEvidence,                *)
(* Engine.PlanNextAction).  The engines modelled here have no action       *)
(* classes bound (LoadActionClassesFromDir finds no directory), so the     *)
(* action binder matches nothing and attack-path expansion is empty.       *)
(***************************************************************************)
BoolString(b) == IF b THEN "true" ELSE "false"

\* event: [TechniqueID, Target, Success]; nano is the UnixNano reading of the id
IngestEvidence(g, event, nano) ==
    IF event.TechniqueID = "" \/ event.Target = ""
    THEN [g |-> g, err |-> "evidence event missing technique or target"]
    ELSE [g |-> UpsertNode(g, [id |-> EvidenceID(nano, event.TechniqueID),
                               type |-> NodeTypeEvidence,
                               success |-> BoolString(event.Success),
                               confidence |-> 0]),
          err |-> OK]

\* what the expander does on a call: "none" is the nil expander (or one that
\* returns no hypothesis), "failing" one that returns an error
ExpanderKinds == {"none", "failing"}
\* the hypothesis an expander hands back beside its error: "hyp-ai-1"
AdvisoryHypothesis ==
    [ID |-> [k |-> "hyp-ai", h |-> 1, n |-> 0, t |-> ""], ActionClassID |-> "",
     SupportingNodeIDs |-> <<>>, Confidence |-> 60]

Expand(expander) ==
    IF expander = "failing" THEN [hyps |-> <<AdvisoryHypothesis>>, err |-> "ai unavailable"]
    ELSE [hyps |-> <<>>, err |-> OK]

RECURSIVE AddSupports(_, _, _)
AddSupports(g, h, supports) ==
    IF Len(supports) = 0 THEN g
    ELSE AddSupports(AddEdge(g, [from |-> Head(supports), to |-> h.ID,
                                 type |-> EdgeTypeSupports, weight |-> h.Confidence]).g,
                     h, Tail(supports))

RECURSIVE InsertHypotheses(_, _)
InsertHypotheses(g, hyps) ==
    IF Len(hyps) = 0 THEN g
    ELSE LET h == Head(hyps)
             g1 == UpsertNode(g, [id |-> h.ID, type |-> NodeTypeHypothesis, success |-> "",
                                  confidence |-> h.Confidence])
         IN  InsertHypotheses(AddSupports(g1, h, h.SupportingNodeIDs), Tail(hyps))

RECURSIVE AddEnables(_, _, _)
AddEnables(g, hyps, selectedNodeID) ==
    IF Len(hyps) = 0 THEN g
    ELSE AddEnables(AddEdge(g, [from |-> Head(hyps).ID, to |-> selectedNodeID,
                                type |-> EdgeTypeEnables,
                                weight |-> Head(hyps).Confidence]).g,
                    Tail(hyps), selectedNodeID)

\* a faulty merge that appends the expander's hypotheses whatever its error
PlanHypothesesMerged(g, expander) ==
    GenerateHypotheses(g) \o (IF expander # "none" THEN Expand(expander).hyps ELSE <<>>)

\* the hypotheses a plan works with: the generated ones, then the expander's
\* when it returns no error
PlanHypotheses(g, expander) ==
    GenerateHypotheses(g)
        \o (IF expander # "none" /\ Expand(expander).err = OK THEN Expand(expander).hyps
            ELSE <<>>)

\* the rest of PlanNextAction once the hypotheses are in graph g1
PlanRanked(g1, hypotheses, ranked) ==
    IF Len(ranked) = 0
    THEN [g |-> g1, decision |-> None, err |-> "no ranked actions available"]
    ELSE [g |-> AddEnables(UpsertNode(g1, [id |-> TechniqueNodeID(ranked[1].TechniqueID),
                                           type |-> NodeTypeTechnique,
                                           success |-> "", confidence |-> 0]),
                           hypotheses, TechniqueNodeID(ranked[1].TechniqueID)),
          decision |-> Some([Selected |-> ranked[1], Ranked |-> ranked]),
          err |-> OK]

PlanWith(g, hypotheses, ranked) ==
    PlanRanked(InsertHypotheses(g, hypotheses), hypotheses, ranked)

\* returns the graph after the call, the decision (None for nil) and the error
PlanNextAction(g, query, effects, expander) ==
    PlanWith(g, PlanHypotheses(g, expander), RankedActions(query, effects))

(***************************************************************************)
(* Executor engine: core/executor/engine.go (New, Run).                    *)
(***************************************************************************)
\* a faulty New that does not validate the contract
ExecutorNewUnchecked(contract, t) ==
    IF contract.nil
    THEN [engine |-> None, err |-> "engine requires non-nil intent contract"]
    ELSE [engine |-> Some([contract |-> contract]), err |-> OK]

\* New: the engine (None for nil) and the error; campaign and tracker are non-nil
ExecutorNew(contract, t) ==
    IF contract.nil
    THEN [engine |-> None, err |-> "engine requires non-nil intent contract"]
    ELSE IF ContractValidate(contract, t) # OK
    THEN [engine |-> None, err |-> "invalid intent contract"]
    ELSE [engine |-> Some([contract |-> contract]), err |-> OK]

\* the effect registry NewEngine builds from techniques.List()
ListedEffects(reg) == [id \in reg |-> DefaultEffect]

ContextKinds == {"nil", "cancelled", "live"}

ErrNilContext == "nil execution context"
ErrContext == "context canceled"
\* "execution denied: campaign is <status>": the status name is left out
ErrNotRunnable == "execution denied: campaign is not runnable"
ErrExposureGate == "execution halted due to exposure"
ErrExposureHalt == "campaign halted due to exposure"
ErrNoClasses == "no admissible action classes"

\* a faulty gate that lets every status through
LifecycleGateOpen(c) == OK

\* the switch on the campaign status that opens Run
LifecycleGate(c) ==
    IF c.status \in {StatusHalted, StatusCompleted} THEN ErrNotRunnable ELSE OK

RunReturn(c, x, xg, art, err, n) ==
    [c |-> c, x |-> x, xg |-> xg, art |-> art, err |-> err, n |-> n]

\* steps 7 and 8 of Run: the signed artifact is ingested and returned
RunSigned(c, x, xg, signed, execErr, n) ==
    IF signed.err # OK
    THEN RunReturn(c, x, xg, None, "evidence signing failed", n)
    ELSE RunReturn(c, x,
                   IngestEvidence(xg, [TechniqueID |-> signed.a.TechniqueID,
                                       Target |-> signed.a.Target,
                                       Success |-> signed.a.Success], n).g,
                   Some(signed.a),
                   IF x.halted THEN ErrExposureHalt ELSE execErr, n)

\* steps 5 and 6 of Run, after the execution is recorded and the exposure added:
\* the campaign halts if the tracker latched, the artifact is built and signed
RunRecorded(eng, c, x, xg, selected, execErr, target, t, n) ==
    RunSigned(IF x.halted THEN CampaignHalt(c).c ELSE c, x, xg,
              ArtifactSign([ArtifactID |-> n + 1, CampaignID |-> eng.contract.CampaignID,
                            TechniqueID |-> selected, Target |-> target, ExecutedAt |-> t,
                            Success |-> (execErr = OK), Output |-> <<>>,
                            ExposureScore |-> x.score, Integrity |-> <<>>]),
              execErr, n + 1)

\* the error of the execution step
ExecErr(resolved) ==
    IF resolved.err # OK THEN resolved.err
    ELSE IF Len(resolved.res[1].AllowedActionClasses) = 0 THEN ErrNoClasses
    ELSE OK

\* Run once the technique is resolved; reading AllowedActionClasses of a nil
\* resolution panics
RunResolved(eng, c, x, xg, selected, resolved, target, t, n) ==
    IF resolved.res = None
    THEN RunReturn(c, x, xg, None, "panic: nil pointer dereference", n)
    ELSE RunRecorded(eng, CampaignRecordExecution(c).c,
                     TrackerAdd(x, executionExposure).t, xg, selected,
                     ExecErr(resolved), target, t, n)

\* step 4 of Run, given what the reasoner planned
RunPlanned(eng, c, x, plan, reg, target, t, n) ==
    IF plan.err # OK THEN RunReturn(c, x, plan.g, None, plan.err, n)
    ELSE IF TechniquesGet(reg, plan.decision[1].Selected.TechniqueID) # OK
    THEN RunReturn(c, x, plan.g, None,
                   TechniquesGet(reg, plan.decision[1].Selected.TechniqueID), n)
    ELSE RunResolved(eng, c, x, plan.g, plan.decision[1].Selected.TechniqueID,
                     T1595Resolve(plan.decision[1].Selected.TechniqueID, {}, {},
                                  TrackerLevel(x)),
                     target, t, n)

\* steps 2 and 3 of Run, given the result of the lifecycle switch
RunGoverned(eng, started, x, xg, reg, techniqueID, target, t, n) ==
    IF started.err # OK THEN RunReturn(started.c, x, xg, None, started.err, n)
    ELSE IF x.halted
    THEN RunReturn(CampaignHalt(started.c).c, x, xg, None, ErrExposureGate, n)
    ELSE IF Enforce(eng.contract, techniqueID, target, t) # OK
    THEN RunReturn(started.c, x, xg, None,
                   Enforce(eng.contract, techniqueID, target, t), n)
    ELSE RunPlanned(eng, started.c, x,
                    PlanNextAction(xg, [Target |-> target,
                                        AllowedTechniques |-> <<techniqueID>>,
                                        TopN |-> 1],
                                   ListedEffects(reg), "none"),
                    reg, target, t, n)

\* the Initialized case of the lifecycle switch
StartIfInitialized(c) ==
    IF c.status = StatusInitialized THEN CampaignStart(c) ELSE [c |-> c, err |-> OK]

\* Run on engine eng with campaign c, tracker x, the executor's own reasoning
\* graph xg and the technique registry reg, at time t, n being the last UnixNano
\* reading handed out
ExecutorRun(eng, c, x, xg, reg, techniqueID, target, ctx, t, n) ==
    IF ctx = "nil" THEN RunReturn(c, x, xg, None, ErrNilContext, n)
    ELSE IF ctx = "cancelled" THEN RunReturn(c, x, xg, None, ErrContext, n)
    ELSE IF LifecycleGate(c) # OK THEN RunReturn(c, x, xg, None, LifecycleGate(c), n)
    ELSE RunGoverned(eng, StartIfInitialized(c), x, xg, reg, techniqueID, target, t, n)

(***************************************************************************)
(* Operation phases: state.OperationPhase, phaseForState, phaseAllowed.    *)
(***************************************************************************)
PhaseRecon == "RECON"
PhaseInitialAccess == "INITIAL_ACCESS"
PhasePersistence == "PERSISTENCE"
PhasePrivEsc == "PRIV_ESC"
PhaseLateralMovement == "LATERAL_MOVEMENT"
PhaseC2 == "C2"
PhaseObjective == "OBJECTIVE"
PhaseExfil == "EXFIL"

phaseOrder ==
    <<PhaseRecon, PhaseInitialAccess, PhasePersistence, PhasePrivEsc,
      PhaseLateralMovement, PhaseC2, PhaseObjective, PhaseExfil>>

\* OperationPhase.Next(): the phase and whether there is a next one
PhaseNext(p) ==
    IF \E i \in 1..(Len(phaseOrder) - 1) : phaseOrder[i] = p
    THEN [phase |-> phaseOrder[(CHOOSE i \in 1..(Len(phaseOrder) - 1) : phaseOrder[i] = p) + 1],
          ok |-> TRUE]
    ELSE [phase |-> p, ok |-> FALSE]

\* a faulty phase check that lets every phase through
phaseAllowedAny(current, candidate) == TRUE

phaseAllowed(current, candidate) ==
    \/ current = candidate
    \/ PhaseNext(current).ok /\ PhaseNext(current).phase = candidate

\* a faulty phaseForState that tests the third execution with == for >=
phaseForStateExact(executions) ==
    IF executions >= 5 THEN PhaseObjective
    ELSE IF executions = 3 THEN PhaseLateralMovement
    ELSE PhaseRecon

\* phaseForState, from the executions the campaign state has recorded
phaseForState(executions) ==
    IF executions >= 5 THEN PhaseObjective
    ELSE IF executions >= 3 THEN PhaseLateralMovement
    ELSE PhaseRecon

(***************************************************************************)
(* Action classes and graph snapshots: core/reasoning/attack_path.go.      *)
(* An action class is [ID, Phase, Preconditions, ProducesNodes,            *)
(* ProducesEdges, RiskWeight, ConfidenceBoost], the two weights in         *)
(* hundredths; a pattern is [RequiredNodeTypes, RequiredEdges].            *)
(***************************************************************************)
NodeTypes == {NodeTypeEvidence, NodeTypeHypothesis, NodeTypeAttackPath, NodeTypeTechnique}
EdgeTypes == {EdgeTypeSupports, EdgeTypeEnables, EdgeTypeRefines}

Range(s) == {s[i] : i \in 1..Len(s)}

\* a faulty snapshotFromGraph that counts the nodes only
snapshotFromGraphNodesOnly(g) ==
    [nodeCounts |-> [t \in NodeTypes |-> Cardinality({nd \in g.nodes : nd.type = t})],
     edgeCounts |-> [t \in EdgeTypes |-> 0]]

snapshotFromGraph(g) ==
    [nodeCounts |-> [t \in NodeTypes |-> Cardinality({nd \in g.nodes : nd.type = t})],
     edgeCounts |-> [t \in EdgeTypes |->
                        Cardinality({i \in 1..Len(g.edges) : g.edges[i].type = t})]]

hasNodeType(s, t) == s.nodeCounts[t] > 0
hasEdgeType(s, t) == s.edgeCounts[t] > 0

Occurrences(s, x) == Cardinality({i \in 1..Len(s) : s[i] = x})

\* a faulty applyAction that leaves the snapshot as it was
applyActionNoop(s, ac) == s

applyAction(s, ac) ==
    [nodeCounts |-> [t \in NodeTypes |-> s.nodeCounts[t] + Occurrences(ac.ProducesNodes, t)],
     edgeCounts |-> [t \in EdgeTypes |-> s.edgeCounts[t] + Occurrences(ac.ProducesEdges, t)]]

\* graphSnapshot.hash(): the "n:type:count" and "e:type:count" entries of the
\* kinds the maps hold, which the code sorts and joins
hash(s) ==
    {<<"n", t, s.nodeCounts[t]>> : t \in {u \in NodeTypes : s.nodeCounts[u] > 0}}
       \cup {<<"e", t, s.edgeCounts[t]>> : t \in {u \in EdgeTypes : s.edgeCounts[u] > 0}}

matchSnapshotPatterns(s, patterns) ==
    \A i \in 1..Len(patterns) :
        /\ \A t \in Range(patterns[i].RequiredNodeTypes) : hasNodeType(s, t)
        /\ \A t \in Range(patterns[i].RequiredEdges) : hasEdgeType(s, t)

\* Graph.HasEdgeType
HasEdgeType(g, edgeType) == \E i \in 1..Len(g.edges) : g.edges[i].type = edgeType

\* a faulty MatchPatterns that takes every pattern for satisfied
MatchPatternsAny(g, patterns) == TRUE

\* MatchPatterns over the live graph
MatchPatterns(g, patterns) ==
    \A i \in 1..Len(patterns) :
        /\ \A t \in Range(patterns[i].RequiredNodeTypes) : Len(NodesByType(g, t)) # 0
        /\ \A t \in Range(patterns[i].RequiredEdges) : HasEdgeType(g, t)

\* DefaultActionBinder.MatchAndGenerate(graph, st) for a graph and a state
\* that are not nil, the range over the map b.classes taking the classes in
\* the order given; the confidence is 0.5 + ConfidenceBoost in hundredths
\* "hyp-ac-<id>"
ActionHypothesisID(id) == [k |-> "hyp-ac", h |-> 0, n |-> 0, t |-> id]

RECURSIVE MatchAndGenerate(_, _, _)
MatchAndGenerate(classes, g, executions) ==
    IF Len(classes) = 0 THEN <<>>
    ELSE IF Head(classes).Phase # phaseForState(executions)
    THEN MatchAndGenerate(Tail(classes), g, executions)
    ELSE IF ~MatchPatterns(g, Head(classes).Preconditions)
    THEN MatchAndGenerate(Tail(classes), g, executions)
    ELSE <<[ID |-> ActionHypothesisID(Head(classes).ID), ActionClassID |-> Head(classes).ID,
            SupportingNodeIDs |-> <<>>,
            Confidence |-> 50 + Head(classes).ConfidenceBoost]>>
            \o MatchAndGenerate(Tail(classes), g, executions)

requiredNodes(ac) ==
    UNION {Range(ac.Preconditions[i].RequiredNodeTypes) : i \in 1..Len(ac.Preconditions)}

\* byte order of the action-class ids; every id of a catalogue is "AC-" and
\* one more character, so ids compare by that character
ClassRank(id) ==
    CASE id = "AC-1" -> 1 [] id = "AC-2" -> 2 [] id = "AC-3" -> 3
      [] id = "AC-4" -> 4 [] id = "AC-5" -> 5 [] id = "AC-6" -> 6
      [] id = "AC-7" -> 7 [] OTHER -> 0

\* sort.Slice by id; the ids of a catalogue are distinct
RECURSIVE InsertClass(_, _)
InsertClass(sorted, x) ==
    IF Len(sorted) > 0 /\ ClassRank(x.ID) < ClassRank(sorted[Len(sorted)].ID)
    THEN InsertClass(SubSeq(sorted, 1, Len(sorted) - 1), x) \o <<sorted[Len(sorted)]>>
    ELSE sorted \o <<x>>

\* a faulty sort that leaves the classes in the order it finds them
SortClassesByIDNot(classes) == classes

RECURSIVE SortClassesByID(_)
SortClassesByID(classes) ==
    IF Len(classes) = 0 THEN <<>>
    ELSE InsertClass(SortClassesByID(SubSeq(classes, 1, Len(classes) - 1)),
                     classes[Len(classes)])

\* the classes of the index that eligible collects: those that require no node
\* kind and those that require a kind the snapshot holds, once each
RECURSIVE Collected(_, _)
Collected(classes, s) ==
    IF Len(classes) = 0 THEN <<>>
    ELSE IF \/ requiredNodes(Head(classes)) = {}
            \/ \E t \in requiredNodes(Head(classes)) : s.nodeCounts[t] # 0
    THEN <<Head(classes)>> \o Collected(Tail(classes), s)
    ELSE Collected(Tail(classes), s)

\* actionClassIndex.eligible over buildActionClassIndex(classes)
eligible(classes, s) == SortClassesByID(Collected(classes, s))

IDsOfClasses(stack) == [i \in 1..Len(stack) |-> stack[i].ID]

\* a faulty repetition check that finds no class in the stack
actionInStackNever(stack, id) == FALSE

actionInStack(stack, id) == \E i \in 1..Len(stack) : stack[i].ID = id

\* order of the "%v" renderings "[id id ...]" of two id lists: the first
\* differing id decides, and a list sorts after each of its extensions
\* (' ' < ']')
RECURSIVE KeyLess(_, _)
KeyLess(a, b) ==
    IF Len(a) = 0 THEN FALSE
    ELSE IF Len(b) = 0 THEN TRUE
    ELSE IF Head(a) # Head(b) THEN ClassRank(Head(a)) < ClassRank(Head(b))
    ELSE KeyLess(Tail(a), Tail(b))

(***************************************************************************)
(* Path scoring: scorePathWithCache and its helpers.  A confidence is in   *)
(* hundredths, a feasibility ratio in halves (a class has at most two      *)
(* patterns), and a score in units of 1/ScoreUnit, which every term of the *)
(* formula is a whole number of for paths of up to five steps.             *)
(***************************************************************************)
ScoreUnit == 1200000

RECURSIVE cumulativeRisk(_)
cumulativeRisk(stack) ==
    IF Len(stack) = 0 THEN 0 ELSE Head(stack).RiskWeight + cumulativeRisk(Tail(stack))

Prefix(s, n) == SubSeq(s, 1, n)

\* buildHypotheses / hypothesisForAction: one hypothesis per step
buildHypotheses(stack) ==
    [i \in 1..Len(stack) |->
        [ActionClassID |-> stack[i].ID, Confidence |-> 50 + stack[i].ConfidenceBoost]]

RECURSIVE totalConfidence(_)
totalConfidence(steps) ==
    IF Len(steps) = 0 THEN 0 ELSE Head(steps).Confidence + totalConfidence(Tail(steps))

availabilityAfterPath(path) ==
    [nodes |-> {NodeTypeEvidence} \cup UNION {Range(path[i].ProducesNodes) : i \in 1..Len(path)},
     edges |-> UNION {Range(path[i].ProducesEdges) : i \in 1..Len(path)}]

availabilityBeforeLast(path) ==
    IF Len(path) <= 1 THEN [nodes |-> {NodeTypeEvidence}, edges |-> {}]
    ELSE availabilityAfterPath(Prefix(path, Len(path) - 1))

patternSatisfied(pattern, avail) ==
    /\ Range(pattern.RequiredNodeTypes) \subseteq avail.nodes
    /\ Range(pattern.RequiredEdges) \subseteq avail.edges

preconditionsEligible(patterns, avail) ==
    \A i \in 1..Len(patterns) : patternSatisfied(patterns[i], avail)

\* matched/total of matchedPreconditions as a ratio in halves, 1 when the
\* class has no pattern
RatioHalves(patterns, avail) ==
    IF Len(patterns) = 0 THEN 2
    ELSE (2 * Cardinality({i \in 1..Len(patterns) : patternSatisfied(patterns[i], avail)}))
            \div Len(patterns)

\* the sum of the ratios that averageFeasibility divides by the path length
RECURSIVE FeasibilitySum(_, _)
FeasibilitySum(path, n) ==
    IF n = 0 THEN 0
    ELSE FeasibilitySum(path, n - 1)
            + RatioHalves(path[n].Preconditions, availabilityAfterPath(Prefix(path, n - 1)))

\* what unlockedActionCount counts when the cache does not answer
CountUnlocked(path, universe) ==
    Cardinality({i \in 1..Len(universe) :
                    /\ ~actionInStack(path, universe[i].ID)
                    /\ ~preconditionsEligible(universe[i].Preconditions,
                                              availabilityBeforeLast(path))
                    /\ preconditionsEligible(universe[i].Preconditions,
                                             availabilityAfterPath(path))})

cacheKey(path, graphHash) ==
    <<graphHash, availabilityBeforeLast(path), availabilityAfterPath(path)>>

CacheHas(cache, key) == \E e \in cache : e.key = key
CacheGet(cache, key) == (CHOOSE e \in cache : e.key = key).value

\* a faulty count that never consults the cache
unlockedActionCountFresh(path, universe, cache, graphHash) ==
    [count |-> CountUnlocked(path, universe), cache |-> cache]

\* unlockedActionCount: the count and the cache after the call
unlockedActionCount(path, universe, cache, graphHash) ==
    IF Len(path) = 0 \/ Len(universe) = 0 THEN [count |-> 0, cache |-> cache]
    ELSE IF CacheHas(cache, cacheKey(path, graphHash))
    THEN [count |-> CacheGet(cache, cacheKey(path, graphHash)), cache |-> cache]
    ELSE [count |-> CountUnlocked(path, universe),
          cache |-> cache \cup {[key |-> cacheKey(path, graphHash),
                                 value |-> CountUnlocked(path, universe)]}]

riskPenalty(risk) == IF risk > 200 THEN 120 * risk * risk ELSE 4800 * risk

producesNode(nodes, objective) == \E i \in 1..Len(nodes) : nodes[i] = objective

objectiveProximity(pathClasses, objective, cfg) ==
    IF Len(pathClasses) = 0 THEN 0
    ELSE IF objective # "" /\ producesNode(pathClasses[Len(pathClasses)].ProducesNodes, objective)
    THEN ScoreUnit
    ELSE IF /\ objective = ""
            /\ \E i \in 1..Len(cfg.ObjectiveNodeTypes) :
                  producesNode(pathClasses[Len(pathClasses)].ProducesNodes,
                               cfg.ObjectiveNodeTypes[i])
    THEN (9 * ScoreUnit) \div 10
    ELSE ScoreUnit \div (Len(pathClasses) + 1)

\* the score before the objective factor
BaseScore(steps, pathClasses, unlocked) ==
    (IF Len(steps) > 0 THEN (9600 * totalConfidence(steps)) \div Len(steps) ELSE 0)
      + (IF Len(pathClasses) > 0
         THEN (660000 * FeasibilitySum(pathClasses, Len(pathClasses))) \div Len(pathClasses)
         ELSE 0)
      + (180000 * unlocked)
      - riskPenalty(cumulativeRisk(pathClasses))
      - (300000 * Len(steps))

PathScore(steps, pathClasses, objective, cfg, unlocked) ==
    IF objective # ""
    THEN ((BaseScore(steps, pathClasses, unlocked)
             + objectiveProximity(pathClasses, objective, cfg)) * 27) \div 20
    ELSE BaseScore(steps, pathClasses, unlocked) + objectiveProximity(pathClasses, objective, cfg)

ScoredWith(steps, pathClasses, objective, cfg, unlock) ==
    [path |-> [Steps |-> steps,
               Score |-> PathScore(steps, pathClasses, objective, cfg, unlock.count),
               Risk |-> cumulativeRisk(pathClasses),
               Objective |-> objective,
               ObjectiveProximityScore |-> objectiveProximity(pathClasses, objective, cfg),
               Valid |-> TRUE],
     cache |-> unlock.cache]

\* scorePathWithCache: the scored path and the cache after the call
scorePathWithCache(steps, pathClasses, allClasses, objective, cfg, unlockCache, graphHash) ==
    ScoredWith(steps, pathClasses, objective, cfg,
               unlockedActionCount(pathClasses, allClasses, unlockCache, graphHash))

(***************************************************************************)
(* Attack-path expansion: Engine.ExpandAttackPaths (beam search over       *)
(* snapshots).  A configuration is [MaxDepth, BeamWidth, RiskThreshold,    *)
(* StartNodeTypes, ObjectiveNodeTypes, ROEPolicy] with the threshold in    *)
(* hundredths; an ROE policy is "nil", "allow" or "cautious", the last     *)
(* refusing every class of risk weight 0.5 or more.  It reads the live     *)
(* graph and writes nothing.                                               *)
(***************************************************************************)
DefaultAttackPathConfig ==
    [MaxDepth |-> 4, BeamWidth |-> 25, RiskThreshold |-> 200,
     StartNodeTypes |-> <<NodeTypeEvidence, NodeTypeHypothesis, NodeTypeTechnique>>,
     ObjectiveNodeTypes |-> <<NodeTypeAttackPath, NodeTypeTechnique>>,
     ROEPolicy |-> "allow"]

\* a faulty normalisation that always works with the default configuration
EffectivePathConfigDefault(cfg) == DefaultAttackPathConfig

\* the configuration ExpandAttackPaths works with
EffectivePathConfig(cfg) ==
    IF cfg.MaxDepth <= 0 THEN DefaultAttackPathConfig
    ELSE [cfg EXCEPT !.BeamWidth = IF cfg.BeamWidth <= 0
                                   THEN DefaultAttackPathConfig.BeamWidth
                                   ELSE cfg.BeamWidth,
                     !.ROEPolicy = IF cfg.ROEPolicy = "nil" THEN "allow" ELSE cfg.ROEPolicy]

\* a faulty policy check that lets every class through
ROEPolicyAllow(cfg, ac, g) == TRUE

ROEPolicy(cfg, ac, g) == cfg.ROEPolicy # "cautious" \/ ac.RiskWeight < 50

RECURSIVE seedNodeCount(_, _)
seedNodeCount(g, types) ==
    IF Len(types) = 0 THEN 0
    ELSE Len(NodesByType(g, Head(types))) + seedNodeCount(g, Tail(types))

\* findObjective: the first objective kind the action produces, "" for none
RECURSIVE findObjective(_, _)
findObjective(objectiveNodeTypes, produced) ==
    IF Len(objectiveNodeTypes) = 0 THEN ""
    ELSE IF producesNode(produced, Head(objectiveNodeTypes)) THEN Head(objectiveNodeTypes)
    ELSE findObjective(Tail(objectiveNodeTypes), produced)

pathKey(path) ==
    <<[i \in 1..Len(path.Steps) |-> path.Steps[i].ActionClassID], path.Objective>>

\* the order of pruneAttackBeam: score descending, then key
CandidateBefore(a, b) ==
    IF a.score = b.score THEN KeyLess(a.key, b.key) ELSE a.score > b.score

\* sort.Slice on a short slice is an insertion sort: each element moves left
\* past the elements it is less than
RECURSIVE InsertCandidate(_, _)
InsertCandidate(sorted, x) ==
    IF Len(sorted) > 0 /\ CandidateBefore(x, sorted[Len(sorted)])
    THEN InsertCandidate(Prefix(sorted, Len(sorted) - 1), x) \o <<sorted[Len(sorted)]>>
    ELSE sorted \o <<x>>

RECURSIVE SortCandidates(_, _)
SortCandidates(sorted, rest) ==
    IF Len(rest) = 0 THEN sorted
    ELSE SortCandidates(InsertCandidate(sorted, Head(rest)), Tail(rest))

\* a faulty prune that keeps the whole beam
pruneAttackBeamAll(beam, width) == SortCandidates(<<>>, beam)

pruneAttackBeam(beam, width) ==
    IF Len(beam) > width THEN Prefix(SortCandidates(<<>>, beam), width)
    ELSE SortCandidates(<<>>, beam)

\* the order of the final sort of the paths: score descending, then fewer steps
PathBefore(a, b) ==
    IF a.Score = b.Score THEN Len(a.Steps) < Len(b.Steps) ELSE a.Score > b.Score

RECURSIVE InsertPath(_, _)
InsertPath(sorted, x) ==
    IF Len(sorted) > 0 /\ PathBefore(x, sorted[Len(sorted)])
    THEN InsertPath(Prefix(sorted, Len(sorted) - 1), x) \o <<sorted[Len(sorted)]>>
    ELSE sorted \o <<x>>

RECURSIVE SortPaths(_, _)
SortPaths(sorted, rest) ==
    IF Len(rest) = 0 THEN sorted ELSE SortPaths(InsertPath(sorted, Head(rest)), Tail(rest))

\* a root candidate joins the beam with its score; acc is [beam, cache]
RootScored(acc, root, base, scored) ==
    [beam |-> Append(acc.beam, [graph |-> base, stack |-> <<root>>,
                                score |-> scored.path.Score, key |-> <<root.ID>>]),
     cache |-> scored.cache]

\* The loops of the planners run their iterations one after the other, each on
\* the cache, the seen set and the beam the one before left. A loop below reads
\* its accumulator before it goes on, so that an iteration is evaluated on the
\* finished result of the previous one.
Sequenced(acc) == acc = acc

RECURSIVE RootBeam(_, _, _, _)
RootBeam(acc, roots, base, ctx) ==
    IF Sequenced(acc) /\ Len(roots) = 0 THEN acc
    ELSE IF \/ ~phaseAllowed(ctx.currentPhase, Head(roots).Phase)
            \/ ~ROEPolicy(ctx.cfg, Head(roots), ctx.g)
            \/ ~matchSnapshotPatterns(base, Head(roots).Preconditions)
    THEN RootBeam(acc, Tail(roots), base, ctx)
    ELSE RootBeam(RootScored(acc, Head(roots), base,
                             scorePathWithCache(buildHypotheses(<<Head(roots)>>),
                                                <<Head(roots)>>, ctx.classes, "", ctx.cfg,
                                                acc.cache, hash(base))),
                  Tail(roots), base, ctx)

\* an extension joins the next beam with its score; acc is
\* [paths, seen, nextBeam, cache]
ExtensionScored(acc, nextStack, gCopy, scored) ==
    [acc EXCEPT !.nextBeam = Append(@, [graph |-> gCopy, stack |-> nextStack,
                                        score |-> scored.path.Score,
                                        key |-> IDsOfClasses(nextStack)]),
                !.cache = scored.cache]

RECURSIVE ExtendWith(_, _, _, _, _)
ExtendWith(acc, cand, gCopy, nexts, ctx) ==
    IF Sequenced(acc) /\ Len(nexts) = 0 THEN acc
    ELSE IF \/ ~phaseAllowed(ctx.currentPhase, Head(nexts).Phase)
            \/ actionInStack(cand.stack, Head(nexts).ID)
            \/ ~matchSnapshotPatterns(gCopy, Head(nexts).Preconditions)
    THEN ExtendWith(acc, cand, gCopy, Tail(nexts), ctx)
    ELSE ExtendWith(ExtensionScored(acc, Append(cand.stack, Head(nexts)), gCopy,
                                    scorePathWithCache(
                                        buildHypotheses(Append(cand.stack, Head(nexts))),
                                        Append(cand.stack, Head(nexts)), ctx.classes, "",
                                        ctx.cfg, acc.cache, hash(gCopy))),
                    cand, gCopy, Tail(nexts), ctx)

\* the risk a candidate may not exceed, in thousandths; 0 for no limit
riskLimit(cfg) ==
    IF cfg.RiskThreshold > 0 /\ cfg.RiskThreshold < 200 THEN 9 * cfg.RiskThreshold
    ELSE 10 * cfg.RiskThreshold

\* a faulty risk check that lets every candidate through
RiskExceededNever(cfg, stack) == FALSE

RiskExceeded(cfg, stack) == riskLimit(cfg) > 0 /\ 10 * cumulativeRisk(stack) > riskLimit(cfg)

\* the candidate's path is scored, and emitted when it reaches an objective
\* under a key not seen yet
PathEmitted(acc, scored, reached) ==
    IF reached /\ pathKey(scored.path) \notin acc.seen
    THEN [acc EXCEPT !.paths = Append(@, scored.path),
                     !.seen = @ \cup {pathKey(scored.path)},
                     !.cache = scored.cache]
    ELSE [acc EXCEPT !.cache = scored.cache]

\* the candidate's path is scored; unless this is the last depth, its
\* extensions join the next beam
CandidateScored(acc, cand, gCopy, objective, depth, ctx, scored) ==
    IF depth = ctx.cfg.MaxDepth THEN PathEmitted(acc, scored, objective # "")
    ELSE ExtendWith(PathEmitted(acc, scored, objective # ""), cand, gCopy,
                    eligible(ctx.classes, gCopy), ctx)

\* a candidate whose latest step is applied to its snapshot copy gCopy
CandidateApplied(acc, cand, gCopy, objective, depth, ctx) ==
    CandidateScored(acc, cand, gCopy, objective, depth, ctx,
                    scorePathWithCache(buildHypotheses(cand.stack), cand.stack, ctx.classes,
                                       objective, ctx.cfg, acc.cache, hash(gCopy)))

ProcessCandidate(acc, cand, depth, ctx) ==
    IF \/ ~matchSnapshotPatterns(cand.graph, cand.stack[Len(cand.stack)].Preconditions)
       \/ ~ROEPolicy(ctx.cfg, cand.stack[Len(cand.stack)], ctx.g)
    THEN acc
    ELSE IF RiskExceeded(ctx.cfg, cand.stack) THEN acc
    ELSE CandidateApplied(acc, cand, applyAction(cand.graph, cand.stack[Len(cand.stack)]),
                          findObjective(ctx.cfg.ObjectiveNodeTypes,
                                        cand.stack[Len(cand.stack)].ProducesNodes),
                          depth, ctx)

RECURSIVE ProcessBeam(_, _, _, _)
ProcessBeam(acc, beam, depth, ctx) ==
    IF Sequenced(acc) /\ Len(beam) = 0 THEN acc
    ELSE ProcessBeam(ProcessCandidate(acc, Head(beam), depth, ctx), Tail(beam), depth, ctx)

PrunedBeam(acc, ctx) == [acc EXCEPT !.nextBeam = pruneAttackBeam(@, ctx.cfg.BeamWidth)]

\* the loop over the depths; acc.nextBeam holds the pruned beam of the depth
RECURSIVE DepthLoop(_, _, _)
DepthLoop(acc, depth, ctx) ==
    IF depth > ctx.cfg.MaxDepth \/ Len(acc.nextBeam) = 0 THEN acc
    ELSE DepthLoop(PrunedBeam(ProcessBeam([acc EXCEPT !.nextBeam = <<>>], acc.nextBeam,
                                          depth, ctx), ctx),
                   depth + 1, ctx)

\* the search from the scored roots
ExpandRooted(rooted, ctx) ==
    SortPaths(<<>>,
              DepthLoop(PrunedBeam([paths |-> <<>>, seen |-> {}, nextBeam |-> rooted.beam,
                                    cache |-> rooted.cache], ctx),
                        1, ctx).paths)

\* the search once the graph is known to hold a start node
ExpandSeeded(base, ctx) ==
    ExpandRooted(RootBeam([beam |-> <<>>, cache |-> {}], eligible(ctx.classes, base), base,
                          ctx),
                 ctx)

\* a faulty expansion that applies the steps of the paths it returns to the
\* live graph
ExpandAttackPathsLive(g, classes, cfg, executions) ==
    [g |-> IF Len(classes) = 0 THEN g
           ELSE UpsertNode(g, [id |-> TechniqueNodeID(classes[1].ID), type |-> NodeTypeTechnique,
                               success |-> "", confidence |-> 0]),
     paths |-> <<>>, err |-> OK]

\* Engine.ExpandAttackPaths(st) over live graph g, with the bound classes in
\* the order boundActionClasses returns them: the graph after the call, the
\* paths and the error
ExpandAttackPaths(g, classes, cfg, executions) ==
    IF Len(classes) = 0 THEN [g |-> g, paths |-> <<>>, err |-> OK]
    ELSE IF seedNodeCount(g, EffectivePathConfig(cfg).StartNodeTypes) = 0
    THEN [g |-> g, paths |-> <<>>, err |-> OK]
    ELSE [g |-> g,
          paths |-> ExpandSeeded(snapshotFromGraph(g),
                                 [classes |-> classes, cfg |-> EffectivePathConfig(cfg),
                                  currentPhase |-> phaseForState(executions), g |-> g]),
          err |-> OK]

(***************************************************************************)
(* Planning the next action over bound classes: Engine.PlanNextAction with *)
(* the binder's hypotheses and the attack-path bonus.  The ranked actions  *)
(* it returns carry their Score in units of 1/12000000: a technique score  *)
(* (ten-thousandths) times 1200, plus a tenth of a path score (units of    *)
(* 1/ScoreUnit).                                                           *)
(***************************************************************************)
\* bestByAction: the paths that raise the entry of the class id, an entry
\* starting at 0
BonusPaths(paths, id) ==
    {n \in 1..Len(paths) :
        /\ Len(paths[n].Steps) > 0
        /\ paths[n].Steps[1].ActionClassID = id
        /\ paths[n].Score > 0}

BestByAction(paths, id) ==
    LET n == CHOOSE n \in BonusPaths(paths, id) :
                 \A m \in BonusPaths(paths, id) : paths[m].Score <= paths[n].Score
    IN  paths[n].Score

FineScore(ranked) == [i \in 1..Len(ranked) |-> [ranked[i] EXCEPT !.Score = @ * 1200]]

enrichRankedActionsWithPaths(ranked, paths) ==
    IF Len(ranked) = 0 \/ Len(paths) = 0 THEN FineScore(ranked)
    ELSE SortRanked([i \in 1..Len(ranked) |->
                        IF BonusPaths(paths, ranked[i].ActionClassID) # {}
                        THEN [ranked[i] EXCEPT !.Score = @ * 1200
                                         + BestByAction(paths, ranked[i].ActionClassID)]
                        ELSE [ranked[i] EXCEPT !.Score = @ * 1200]])

\* the phases in which PlanNextAction expands attack paths
EnrichingPhases == {PhaseLateralMovement, PhaseObjective, PhaseC2}

\* the ranked actions once the hypotheses are in graph g1
EnrichedRanked(g1, classes, cfg, executions, ranked) ==
    IF phaseForState(executions) \in EnrichingPhases
    THEN enrichRankedActionsWithPaths(ranked,
                                      ExpandAttackPaths(g1, classes, cfg, executions).paths)
    ELSE FineScore(ranked)

PlanNextActionOver(g1, hypotheses, classes, cfg, executions, ranked) ==
    PlanRanked(g1, hypotheses, EnrichedRanked(g1, classes, cfg, executions, ranked))

\* Engine.PlanNextAction(query) of an engine with no expander, a state that
\* is not nil and the bound classes in the order the binder hands them out:
\* the graph after the call, the decision (None for nil) and the error
PlanNextActionBound(g, classes, cfg, executions, query, effects) ==
    PlanNextActionOver(InsertHypotheses(g, GenerateHypotheses(g)
                                               \o MatchAndGenerate(classes, g, executions)),
                       GenerateHypotheses(g) \o MatchAndGenerate(classes, g, executions),
                       classes, cfg, executions, RankedActions(query, effects))

(***************************************************************************)
(* Campaign planning: Engine.PlanCampaign.  Options are [MaxDepth,         *)
(* RiskTolerance, ConfidenceThreshold, BeamWidth, TopN,                    *)
(* ObjectiveBiasWeight], the tolerance, threshold and weight in            *)
(* hundredths.  A campaign's Confidence is in units of 1/6000, which the   *)
(* average of up to six step confidences is a whole number of.             *)
(***************************************************************************)
DefaultCampaignOptions ==
    [MaxDepth |-> 5, RiskTolerance |-> 200, ConfidenceThreshold |-> 55, BeamWidth |-> 25,
     TopN |-> 10, ObjectiveBiasWeight |-> 35]

\* a faulty normalisation that keeps the options as given
normalizeCampaignOptionsKept(opts) == opts

normalizeCampaignOptions(opts) ==
    [f \in DOMAIN opts |-> IF opts[f] <= 0 THEN DefaultCampaignOptions[f] ELSE opts[f]]

campaignPhaseAllowed(root, progress, candidate) ==
    IF Len(progress) = 0 THEN phaseAllowed(root, candidate)
    ELSE phaseAllowed(progress[Len(progress)], candidate)

attackStepForAction(ac) ==
    [ActionClassID |-> ac.ID, Confidence |-> 50 + ac.ConfidenceBoost, Phase |-> ac.Phase]

averageCampaignConfidence(steps) ==
    IF Len(steps) = 0 THEN 0 ELSE (60 * totalConfidence(steps)) \div Len(steps)

\* objectiveDistance: the steps since the last one that produces the objective
RECURSIVE objectiveDistance(_, _, _)
objectiveDistance(actions, objective, i) ==
    IF i = 0 THEN Len(actions)
    ELSE IF producesNode(actions[i].ProducesNodes, objective) THEN Len(actions) - i
    ELSE objectiveDistance(actions, objective, i - 1)

\* the preconditions' required kinds that are the objective, with repetitions
Supporting(action, objective) ==
    Cardinality({<<i, j>> \in (1..Len(action.Preconditions)) \X (1..Cardinality(NodeTypes)) :
                    /\ j <= Len(action.Preconditions[i].RequiredNodeTypes)
                    /\ action.Preconditions[i].RequiredNodeTypes[j] = objective})

objectiveProximityScore(distance, action, objective) ==
    IF producesNode(action.ProducesNodes, objective) THEN ScoreUnit
    ELSE (ScoreUnit \div (distance + 1)) + (Supporting(action, objective) * (ScoreUnit \div 2))

campaignKey(c) == <<[i \in 1..Len(c.Steps) |-> c.Steps[i].ActionClassID], c.Objective>>
candidatePathKey(c) == [i \in 1..Len(c.steps) |-> c.steps[i].ActionClassID]

\* the order of pruneCampaignBeam: score descending, then key
CampaignCandidateBefore(a, b) ==
    IF a.score = b.score THEN KeyLess(candidatePathKey(a), candidatePathKey(b))
    ELSE a.score > b.score

RECURSIVE InsertCampaignCandidate(_, _)
InsertCampaignCandidate(sorted, x) ==
    IF Len(sorted) > 0 /\ CampaignCandidateBefore(x, sorted[Len(sorted)])
    THEN InsertCampaignCandidate(Prefix(sorted, Len(sorted) - 1), x) \o <<sorted[Len(sorted)]>>
    ELSE sorted \o <<x>>

RECURSIVE SortCampaignCandidates(_, _)
SortCampaignCandidates(sorted, rest) ==
    IF Len(rest) = 0 THEN sorted
    ELSE SortCampaignCandidates(InsertCampaignCandidate(sorted, Head(rest)), Tail(rest))

\* a faulty pruning that keeps the whole beam when the width is 1
pruneCampaignBeamWide(beam, width) ==
    IF Len(beam) > width /\ width > 1 THEN Prefix(SortCampaignCandidates(<<>>, beam), width)
    ELSE SortCampaignCandidates(<<>>, beam)

pruneCampaignBeam(beam, width) ==
    IF Len(beam) > width THEN Prefix(SortCampaignCandidates(<<>>, beam), width)
    ELSE SortCampaignCandidates(<<>>, beam)

\* the order of the final sort of the campaigns: score descending, then key
CampaignBefore(a, b) ==
    IF a.Score = b.Score THEN KeyLess(campaignKey(a)[1], campaignKey(b)[1])
    ELSE a.Score > b.Score

\* a faulty insertion that leaves the campaigns in the order they were found
InsertCampaignLast(sorted, x) == sorted \o <<x>>

RECURSIVE InsertCampaign(_, _)
InsertCampaign(sorted, x) ==
    IF Len(sorted) > 0 /\ CampaignBefore(x, sorted[Len(sorted)])
    THEN InsertCampaign(Prefix(sorted, Len(sorted) - 1), x) \o <<sorted[Len(sorted)]>>
    ELSE sorted \o <<x>>

RECURSIVE SortCampaigns(_, _)
SortCampaigns(sorted, rest) ==
    IF Len(rest) = 0 THEN sorted
    ELSE SortCampaigns(InsertCampaign(sorted, Head(rest)), Tail(rest))

\* the candidate that projectCampaignCandidate returns once its checks pass
ProjectedCandidate(candidate, action, actions, steps, objective, cfg, scored) ==
    [graph |-> applyAction(candidate.graph, action),
     actions |-> actions,
     steps |-> steps,
     score |-> scored.path.Score
                 + ((objectiveProximityScore(objectiveDistance(actions, objective, Len(actions)),
                                             action, objective)
                       * cfg.ObjectiveBiasWeight) \div 100),
     risk |-> cumulativeRisk(actions),
     confidence |-> averageCampaignConfidence(steps),
     objectiveReached |-> producesNode(action.ProducesNodes, objective),
     phaseProgress |-> Append(candidate.phaseProgress, action.Phase),
     feasibility |-> FeasibilitySum(actions, Len(actions))]

\* a faulty projection that never refuses for risk
ProjectionRefusedRiskBlind(candidate, actions, steps, cfg) ==
    \/ totalConfidence(steps) < cfg.ConfidenceThreshold * Len(steps)
    \/ /\ Len(candidate.steps) > 0
       /\ FeasibilitySum(actions, Len(actions)) * Len(candidate.steps)
             < candidate.feasibility * Len(actions)

\* a faulty projection that never refuses for confidence
ProjectionRefusedConfidenceBlind(candidate, actions, steps, cfg) ==
    \/ cumulativeRisk(actions) > cfg.RiskTolerance
    \/ /\ Len(candidate.steps) > 0
       /\ FeasibilitySum(actions, Len(actions)) * Len(candidate.steps)
             < candidate.feasibility * Len(actions)

\* whether projectCampaignCandidate refuses the extension of candidate by
\* actions and steps; feasibility holds the sum of the ratios
ProjectionRefused(candidate, actions, steps, cfg) ==
    \/ cumulativeRisk(actions) > cfg.RiskTolerance
    \/ totalConfidence(steps) < cfg.ConfidenceThreshold * Len(steps)
    \/ /\ Len(candidate.steps) > 0
       /\ FeasibilitySum(actions, Len(actions)) * Len(candidate.steps)
             < candidate.feasibility * Len(actions)

\* the projected candidate joins the next beam and, when it reaches the
\* objective under a key not seen yet, the campaigns; acc is
\* [campaigns, seen, nextBeam, cache]
CandidateProjected(acc, projected, objective, cache) ==
    IF /\ projected.objectiveReached
       /\ <<candidatePathKey(projected), objective>> \notin acc.seen
    THEN [campaigns |-> Append(acc.campaigns,
                               [Steps |-> projected.steps, Score |-> projected.score,
                                Risk |-> projected.risk, Objective |-> objective,
                                Confidence |-> projected.confidence]),
          seen |-> acc.seen \cup {<<candidatePathKey(projected), objective>>},
          nextBeam |-> Append(acc.nextBeam, projected),
          cache |-> cache]
    ELSE [acc EXCEPT !.nextBeam = Append(@, projected), !.cache = cache]

ProjectScored(acc, candidate, action, actions, steps, ctx, scored) ==
    CandidateProjected(acc,
                       ProjectedCandidate(candidate, action, actions, steps, ctx.objective,
                                          ctx.cfg, scored),
                       ctx.objective, scored.cache)

\* projectCampaignCandidate for one eligible action, and what the loop does
\* with its result
ProjectAction(acc, candidate, action, actions, steps, ctx) ==
    IF ProjectionRefused(candidate, actions, steps, ctx.cfg) THEN acc
    ELSE ProjectScored(acc, candidate, action, actions, steps, ctx,
                       scorePathWithCache(
                           [i \in 1..Len(steps) |->
                               [ActionClassID |-> steps[i].ActionClassID,
                                Confidence |-> steps[i].Confidence]],
                           actions, ctx.classes,
                           IF producesNode(action.ProducesNodes, ctx.objective)
                           THEN ctx.objective ELSE "",
                           DefaultAttackPathConfig, acc.cache,
                           hash(applyAction(candidate.graph, action))))

RECURSIVE ExtendCampaign(_, _, _, _)
ExtendCampaign(acc, candidate, actions, ctx) ==
    IF Sequenced(acc) /\ Len(actions) = 0 THEN acc
    ELSE IF \/ ~campaignPhaseAllowed(ctx.currentPhase, candidate.phaseProgress,
                                     Head(actions).Phase)
            \/ ~matchSnapshotPatterns(candidate.graph, Head(actions).Preconditions)
    THEN ExtendCampaign(acc, candidate, Tail(actions), ctx)
    ELSE ExtendCampaign(ProjectAction(acc, candidate, Head(actions),
                                      Append(candidate.actions, Head(actions)),
                                      Append(candidate.steps, attackStepForAction(Head(actions))),
                                      ctx),
                        candidate, Tail(actions), ctx)

RECURSIVE ProcessCampaignBeam(_, _, _)
ProcessCampaignBeam(acc, beam, ctx) ==
    IF Sequenced(acc) /\ Len(beam) = 0 THEN acc
    ELSE ProcessCampaignBeam(ExtendCampaign(acc, Head(beam),
                                            eligible(ctx.classes, Head(beam).graph), ctx),
                             Tail(beam), ctx)

\* one depth done: its pruned next beam becomes the beam, or the loop ends
RECURSIVE CampaignDepthLoop(_, _, _, _)
CampaignDepthDone(acc, depth, ctx) ==
    IF Len(acc.nextBeam) = 0 THEN acc
    ELSE CampaignDepthLoop([acc EXCEPT !.nextBeam = <<>>],
                           pruneCampaignBeam(acc.nextBeam, ctx.cfg.BeamWidth), depth + 1, ctx)

CampaignDepthLoop(acc, beam, depth, ctx) ==
    IF depth > ctx.cfg.MaxDepth THEN acc
    ELSE CampaignDepthDone(ProcessCampaignBeam(acc, pruneCampaignBeam(beam, ctx.cfg.BeamWidth),
                                               ctx),
                           depth, ctx)

\* a faulty truncation that keeps every campaign
TruncatedNot(campaigns, topN) == campaigns

Truncated(campaigns, topN) ==
    IF Len(campaigns) > topN THEN Prefix(campaigns, topN) ELSE campaigns

PlanFrom(g, ctx) ==
    Truncated(SortCampaigns(<<>>,
                  CampaignDepthLoop([campaigns |-> <<>>, seen |-> {}, nextBeam |-> <<>>,
                                     cache |-> {}],
                                    <<[graph |-> snapshotFromGraph(g), actions |-> <<>>,
                                       steps |-> <<>>, score |-> 0, risk |-> 0,
                                       confidence |-> 0, objectiveReached |-> FALSE,
                                       phaseProgress |-> <<>>, feasibility |-> 0]>>,
                                    1, ctx).campaigns),
              ctx.cfg.TopN)

\* Engine.PlanCampaign(objective, opts) over live graph g: the graph after the
\* call, the campaigns and the error
PlanCampaign(g, classes, objective, opts, executions) ==
    IF objective = "" THEN [g |-> g, campaigns |-> <<>>, err |-> "objective is required"]
    ELSE IF Len(classes) = 0 THEN [g |-> g, campaigns |-> <<>>, err |-> OK]
    ELSE [g |-> g,
          campaigns |-> PlanFrom(g, [classes |-> SortClassesByID(classes),
                                     cfg |-> normalizeCampaignOptions(opts),
                                     objective |-> objective,
                                     currentPhase |-> phaseForState(executions)]),
          err |-> OK]

(***************************************************************************)
(* The tracker's lock: sync.RWMutex as the tracker uses it.  RLock blocks   *)
(* while a writer holds the lock or waits for it; Lock waits for the        *)
(* readers that hold the lock when it is called.  A call on the tracker is  *)
(* at "idle" before it starts and after it returned.                        *)
(***************************************************************************)
TrackerReaders == {"r1", "r2"}
TrackerWriter == "w"
ReaderMethods == {"Score", "Level", "Halted", "Snapshot"}

IdleMutex ==
    [readers |-> 0, readerWait |-> 0, writer |-> "none",
     pc |-> [p \in TrackerReaders \cup {TrackerWriter} |-> "idle"],
     call |-> [p \in TrackerReaders |-> ""],
     delta |-> 0]

\* whether RLock returns: no writer holds the lock or waits for it
RLockReady(m) == m.writer = "none"

RLocked(m) == [m EXCEPT !.readers = @ + 1]

\* RUnlock: one reader less, and one less for a waiting writer to wait for
RUnlocked(m) ==
    [m EXCEPT !.readers = @ - 1,
              !.readerWait = IF m.writer = "waiting" THEN @ - 1 ELSE @]

\* Lock: granted at once without readers, otherwise the writer waits for the
\* readers that hold the lock
Locked(m) ==
    IF m.readers = 0 THEN [m EXCEPT !.writer = "held"]
    ELSE [m EXCEPT !.writer = "waiting", !.readerWait = m.readers]

LockReady(m) == m.writer = "waiting" /\ m.readerWait = 0

Unlocked(m) == [m EXCEPT !.writer = "none"]

(***************************************************************************)
(* The state machine.  One campaign, one exposure tracker and at most one  *)
(* executor engine built over them; one orchestrating reasoning engine     *)
(* whose cycle may be wired to that executor.                              *)
(***************************************************************************)
VARIABLES
    campaign,   \* *state.Campaign: [status, executions]
    exposure,   \* *exposure.Tracker: [maxScore, score, halted]
    now,        \* time.Now(), in 1..MaxTime
    seq,        \* readings of UnixNano and uuid.New handed out so far
    engine,     \* the *executor.Engine that New returned: None, or Some([contract])
    registry,   \* ids in the global technique registry
    xgraph,     \* graph of the executor's own reasoning engine
    graph,      \* graph of the orchestrating reasoning engine
    effects,    \* effect registry of the orchestrating reasoning engine
    cycle,      \* its CycleConfig: [Target, AllowedTechniques, Executor]
    actionBinder,      \* the classes its DefaultActionBinder holds
    attackPathConfig,  \* its AttackPathConfig
    mu,         \* the tracker's sync.RWMutex and the calls under way on the tracker
    last        \* the last call and what it returned

vars ==
    <<campaign, exposure, now, seq, engine, registry, xgraph, graph, effects,
      cycle, actionBinder, attackPathConfig, mu, last>>

MaxScores == {20}
\* Modulus - executionExposure wraps a score of executionExposure to 0
Deltas == {0, executionExposure, Modulus - executionExposure}
EffectRegistrations ==
    {[TechniqueID |-> "T1595", effect |-> DefaultEffect],
     [TechniqueID |-> "T1046", effect |-> StrongEffect]}
CycleConfigs ==
    {[Target |-> "host-1", AllowedTechniques |-> <<>>, Executor |-> TRUE],
     [Target |-> "host-1", AllowedTechniques |-> <<"T1595">>, Executor |-> TRUE],
     [Target |-> "host-1", AllowedTechniques |-> <<>>, Executor |-> FALSE]}

\* args holds the arguments of a call to Enforce, the expander of a planned
\* cycle, and is empty otherwise
Returned(op, ctx, err, art) ==
    [op |-> op, ctx |-> ctx, err |-> err, art |-> art, args |-> <<>>]

Init ==
    /\ campaign = NewCampaign
    /\ exposure \in {NewTracker(m) : m \in MaxScores}
    /\ now = 1
    /\ seq = 0
    /\ engine = None
    /\ registry \in SUBSET Registrable
    /\ xgraph = NewGraph
    /\ graph = NewGraph
    /\ effects = ListedEffects(registry)
    /\ cycle = [Target |-> "", AllowedTechniques |-> <<>>, Executor |-> FALSE]
    /\ actionBinder = {}
    /\ attackPathConfig = DefaultAttackPathConfig
    /\ mu = IdleMutex
    /\ last = Returned("init", "", OK, None)

\* roe.Enforce(contract, techniqueID, target), called directly
EnforceCall(contract, techniqueID, target) ==
    /\ last' = [Returned("Enforce", "", Enforce(contract, techniqueID, target, now), None)
                   EXCEPT !.args = <<contract, techniqueID, target>>]
    /\ UNCHANGED <<campaign, exposure, now, seq, engine, registry, actionBinder,
                   attackPathConfig, mu, xgraph, graph, effects,
                   cycle>>

\* executor.New(contract, campaign, exposure)
New(contract) ==
    /\ engine = None
    /\ engine' = ExecutorNew(contract, now).engine
    /\ last' = Returned("New", "", ExecutorNew(contract, now).err, None)
    /\ UNCHANGED <<campaign, exposure, now, seq, registry, actionBinder,
                   attackPathConfig, mu, xgraph, graph, effects,
                   cycle>>

\* what a return r of Run leaves behind
RunApplied(r, ctx) ==
    /\ campaign' = r.c
    /\ exposure' = r.x
    /\ xgraph' = r.xg
    /\ seq' = r.n
    /\ last' = Returned("Run", ctx, r.err, r.art)

\* Engine.Run(ctx, techniqueID, target)
Run(techniqueID, target, ctx) ==
    /\ engine # None
    /\ campaign.status \in {StatusInitialized, StatusRunning}
          => campaign.executions < MaxExecutions
    /\ RunApplied(ExecutorRun(engine[1], campaign, exposure, xgraph, registry,
                              techniqueID, target, ctx, now, seq), ctx)
    /\ UNCHANGED <<now, engine, registry, actionBinder,
                   attackPathConfig, mu, graph, effects, cycle>>

\* Campaign.Start(), called directly
Start ==
    /\ campaign' = CampaignStart(campaign).c
    /\ last' = Returned("Start", "", CampaignStart(campaign).err, None)
    /\ UNCHANGED <<exposure, now, seq, engine, registry, actionBinder,
                   attackPathConfig, mu, xgraph, graph, effects,
                   cycle>>

\* Campaign.RecordExecution(), called directly
RecordExecution ==
    /\ campaign.executions < MaxExecutions
    /\ campaign' = CampaignRecordExecution(campaign).c
    /\ last' = Returned("RecordExecution", "", CampaignRecordExecution(campaign).err, None)
    /\ UNCHANGED <<exposure, now, seq, engine, registry, actionBinder,
                   attackPathConfig, mu, xgraph, graph, effects,
                   cycle>>

\* Campaign.Halt(reason), called directly
Halt ==
    /\ campaign' = CampaignHalt(campaign).c
    /\ last' = Returned("Halt", "", CampaignHalt(campaign).err, None)
    /\ UNCHANGED <<exposure, now, seq, engine, registry, actionBinder,
                   attackPathConfig, mu, xgraph, graph, effects,
                   cycle>>

\* Campaign.Complete(), called directly
Complete ==
    /\ campaign' = CampaignComplete(campaign).c
    /\ last' = Returned("Complete", "", CampaignComplete(campaign).err, None)
    /\ UNCHANGED <<exposure, now, seq, engine, registry, actionBinder,
                   attackPathConfig, mu, xgraph, graph, effects,
                   cycle>>

\* Tracker.Add(delta), called directly
Add(delta) ==
    /\ exposure' = TrackerAdd(exposure, delta).t
    /\ last' = Returned("Add", "", TrackerAdd(exposure, delta).err, None)
    /\ UNCHANGED <<campaign, now, seq, engine, registry, actionBinder,
                   attackPathConfig, mu, xgraph, graph, effects,
                   cycle>>

\* the clock advances
Tick ==
    /\ now < MaxTime
    /\ now' = now + 1
    /\ last' = Returned("Tick", "", OK, None)
    /\ UNCHANGED <<campaign, exposure, seq, engine, registry, actionBinder,
                   attackPathConfig, mu, xgraph, graph, effects,
                   cycle>>

\* Engine.RegisterTechniqueEffect(effect) on the orchestrating engine
RegisterTechniqueEffect(reg) ==
    /\ effects' = IF reg.TechniqueID = "" THEN effects
                   ELSE [id \in DOMAIN effects \cup {reg.TechniqueID} |->
                           IF id = reg.TechniqueID THEN reg.effect ELSE effects[id]]
    /\ last' = Returned("RegisterTechniqueEffect", "", OK, None)
    /\ UNCHANGED <<campaign, exposure, now, seq, engine, registry, actionBinder,
                   attackPathConfig, mu, xgraph, graph,
                   cycle>>

\* Engine.ConfigureCycle(cfg); a non-nil Executor is the engine New returned
ConfigureCycle(cfg) ==
    /\ cfg.Executor => engine # None
    /\ cycle' = cfg
    /\ last' = Returned("ConfigureCycle", "", OK, None)
    /\ UNCHANGED <<campaign, exposure, now, seq, engine, registry, actionBinder,
                   attackPathConfig, mu, xgraph, graph,
                   effects>>

\* action classes bound to the orchestrating engine's binder; "" is no class
BoundActionClasses == {}

\* RunCycle after the executor returned r: the evidence of an artifact is
\* applied through the selected action class when one is bound, else ingested
CycleExecuted(plan, r, expander) ==
    /\ campaign' = r.c
    /\ exposure' = r.x
    /\ xgraph' = r.xg
    /\ IF r.art # None /\ plan.decision[1].Selected.ActionClassID \notin BoundActionClasses
       THEN /\ graph' = IngestEvidence(plan.g, [TechniqueID |-> r.art[1].TechniqueID,
                                                Target |-> r.art[1].Target,
                                                Success |-> r.art[1].Success],
                                        r.n + 1).g
            /\ seq' = r.n + 1
       ELSE /\ graph' = plan.g
            /\ seq' = r.n
    /\ last' = [Returned("RunCycle", "live", r.err, r.art) EXCEPT !.args = <<expander>>]

\* RunCycle after planning
CyclePlanned(plan, expander) ==
    IF plan.err # OK
    THEN /\ graph' = plan.g
         /\ last' = [Returned("RunCycle", "", plan.err, None) EXCEPT !.args = <<expander>>]
         /\ UNCHANGED <<campaign, exposure, seq, xgraph>>
    ELSE CycleExecuted(plan, ExecutorRun(engine[1], campaign, exposure, xgraph, registry,
                                         plan.decision[1].Selected.TechniqueID,
                                         cycle.Target, "live", now, seq), expander)

\* Engine.RunCycle(state), with what the expander does during it
RunCycle(expander) ==
    /\ Len(graph.edges) <= MaxEdges
    /\ (cycle.Executor /\ campaign.status \in {StatusInitialized, StatusRunning})
          => campaign.executions < MaxExecutions
    /\ IF cycle.Target = ""
       THEN /\ last' = Returned("RunCycle", "", "run cycle target is required", None)
            /\ UNCHANGED <<campaign, exposure, seq, xgraph, graph>>
       ELSE IF ~cycle.Executor
       THEN /\ last' = Returned("RunCycle", "", "run cycle executor is required", None)
            /\ UNCHANGED <<campaign, exposure, seq, xgraph, graph>>
       ELSE CyclePlanned(PlanNextAction(graph, [Target |-> cycle.Target,
                                                AllowedTechniques |-> cycle.AllowedTechniques,
                                                TopN |-> 1],
                                        effects, expander), expander)
    /\ UNCHANGED <<now, engine, registry, actionBinder,
                   attackPathConfig, mu, effects, cycle>>

\* contracts that differ in what Enforce reads
EnforceContracts ==
    {c \in Contracts : c.CampaignID # "" /\ c.Objective # ""} \cup {NilContract}

Next ==
    \/ \E contract \in ContractSamples : New(contract)
    \/ \E techniqueID \in TechniqueIDs, target \in TargetIDs, ctx \in ContextKinds :
          Run(techniqueID, target, ctx)
    \/ Start
    \/ RecordExecution
    \/ Halt
    \/ Complete
    \/ \E delta \in Deltas : Add(delta)
    \/ Tick
    \/ \E reg \in EffectRegistrations : RegisterTechniqueEffect(reg)
    \/ \E cfg \in CycleConfigs : ConfigureCycle(cfg)
    \/ \E expander \in ExpanderKinds : RunCycle(expander)
    \/ \E contract \in ContractSamples, techniqueID \in TechniqueIDs, target \in TargetIDs :
          EnforceCall(contract, techniqueID, target)

\* every operation, in any order
Spec == Init /\ [][Next]_vars

(***************************************************************************)
(* The same machine under callers that use part of the interface.  What a  *)
(* step of Run, New or a campaign or tracker method does depends on the    *)
(* campaign, the tracker, the engine, the registry and the clock alone,    *)
(* and RunCycle changes those only through Run.                            *)
(***************************************************************************)
\* the executor and direct calls on its campaign and tracker
NextExecutor ==
    \/ \E contract \in ContractSamples : New(contract)
    \/ \E techniqueID \in TechniqueIDs, target \in TargetIDs, ctx \in ContextKinds :
          Run(techniqueID, target, ctx)
    \/ Start
    \/ RecordExecution
    \/ Halt
    \/ Complete
    \/ \E delta \in Deltas : Add(delta)
    \/ Tick

SpecExecutor == Init /\ [][NextExecutor]_vars

\* the executor alone drives the campaign and the tracker, under any contract
NextRun ==
    \/ \E contract \in ContractInputs : New(contract)
    \/ \E techniqueID \in TechniqueIDs, target \in TargetIDs, ctx \in ContextKinds :
          Run(techniqueID, target, ctx)
    \/ Tick

SpecRun == Init /\ [][NextRun]_vars

\* the executor alone, over trackers of several limits: one that the first
\* execution reaches, one between two multiples of executionExposure, and one
\* that is such a multiple
RunMaxScores == {5, 15, 20}

InitScores ==
    /\ campaign = NewCampaign
    /\ exposure \in {NewTracker(m) : m \in RunMaxScores}
    /\ now = 1
    /\ seq = 0
    /\ engine = None
    /\ registry \in SUBSET Registrable
    /\ xgraph = NewGraph
    /\ graph = NewGraph
    /\ effects = ListedEffects(registry)
    /\ cycle = [Target |-> "", AllowedTechniques |-> <<>>, Executor |-> FALSE]
    /\ actionBinder = {}
    /\ attackPathConfig = DefaultAttackPathConfig
    /\ mu = IdleMutex
    /\ last = Returned("init", "", OK, None)

SpecRunScores == InitScores /\ [][NextRun]_vars

\* the orchestrating engine's cycles over the executor
NextCycle ==
    \/ \E contract \in ContractSamples : New(contract)
    \/ Complete
    \/ Tick
    \/ \E reg \in EffectRegistrations : RegisterTechniqueEffect(reg)
    \/ \E cfg \in CycleConfigs : ConfigureCycle(cfg)
    \/ \E expander \in ExpanderKinds : RunCycle(expander)

SpecCycle == Init /\ [][NextCycle]_vars

\* Enforce as a function of its arguments and the clock: the arguments and the
\* time are drawn at the start, and the one step is the call
InitEnforce ==
    /\ campaign = NewCampaign
    /\ exposure \in {NewTracker(m) : m \in MaxScores}
    /\ now \in 1..MaxTime
    /\ seq = 0
    /\ engine = None
    /\ registry = Registrable
    /\ xgraph = NewGraph
    /\ graph = NewGraph
    /\ effects = ListedEffects(registry)
    /\ cycle = [Target |-> "", AllowedTechniques |-> <<>>, Executor |-> FALSE]
    /\ actionBinder = {}
    /\ attackPathConfig = DefaultAttackPathConfig
    /\ mu = IdleMutex
    /\ \E contract \in EnforceContracts, techniqueID \in TechniqueIDs, target \in TargetIDs :
          last = [Returned("init", "", OK, None)
                    EXCEPT !.args = <<contract, techniqueID, target>>]

NextEnforce ==
    /\ last.op = "init"
    /\ EnforceCall(last.args[1], last.args[2], last.args[3])

SpecEnforce == InitEnforce /\ [][NextEnforce]_vars

(***************************************************************************)
(* Planning over a bound catalogue.  The inputs are drawn when the engine  *)
(* is set up: the classes bound to it, its attack-path configuration, the  *)
(* live graph and the executions its campaign state has recorded.          *)
(***************************************************************************)
Pattern(nodeTypes) == [RequiredNodeTypes |-> nodeTypes, RequiredEdges |-> <<>>]

ActionClasses ==
    {[ID |-> "AC-1", Phase |-> PhaseRecon, Preconditions |-> <<Pattern(<<NodeTypeEvidence>>)>>,
      ProducesNodes |-> <<NodeTypeHypothesis>>, ProducesEdges |-> <<>>,
      RiskWeight |-> 10, ConfidenceBoost |-> 25],
     [ID |-> "AC-2", Phase |-> PhaseRecon, Preconditions |-> <<Pattern(<<NodeTypeHypothesis>>)>>,
      ProducesNodes |-> <<NodeTypeTechnique>>, ProducesEdges |-> <<EdgeTypeEnables>>,
      RiskWeight |-> 20, ConfidenceBoost |-> 30],
     [ID |-> "AC-3", Phase |-> PhaseInitialAccess,
      Preconditions |-> <<Pattern(<<NodeTypeEvidence>>)>>,
      ProducesNodes |-> <<NodeTypeTechnique>>, ProducesEdges |-> <<>>,
      RiskWeight |-> 10, ConfidenceBoost |-> 5],
     [ID |-> "AC-4", Phase |-> PhasePersistence,
      Preconditions |-> <<Pattern(<<NodeTypeTechnique>>), Pattern(<<NodeTypeHypothesis>>)>>,
      ProducesNodes |-> <<NodeTypeAttackPath>>, ProducesEdges |-> <<>>,
      RiskWeight |-> 10, ConfidenceBoost |-> 10],
     [ID |-> "AC-5", Phase |-> PhaseRecon, Preconditions |-> <<Pattern(<<NodeTypeHypothesis>>)>>,
      ProducesNodes |-> <<NodeTypeHypothesis>>, ProducesEdges |-> <<>>,
      RiskWeight |-> 90, ConfidenceBoost |-> 5],
     [ID |-> "AC-6", Phase |-> PhaseLateralMovement,
      Preconditions |-> <<Pattern(<<NodeTypeEvidence>>)>>,
      ProducesNodes |-> <<NodeTypeTechnique>>, ProducesEdges |-> <<>>,
      RiskWeight |-> 10, ConfidenceBoost |-> 25],
     [ID |-> "AC-7", Phase |-> PhaseLateralMovement,
      Preconditions |-> <<Pattern(<<NodeTypeEvidence>>)>>,
      ProducesNodes |-> <<NodeTypeHypothesis>>, ProducesEdges |-> <<>>,
      RiskWeight |-> 20, ConfidenceBoost |-> 10]}

ClassByID(id) == CHOOSE ac \in ActionClasses : ac.ID = id

\* the catalogues a binder may hold, by the ids of their classes
Catalogues ==
    {{ClassByID(id) : id \in ids} :
        ids \in {{}, {"AC-1", "AC-2"}, {"AC-1", "AC-5"}, {"AC-2", "AC-3", "AC-5"},
                 {"AC-1", "AC-2", "AC-3", "AC-4"}}}

\* DefaultActionBinder.Classes() hands the classes of the map out in an order
\* of its own. The orders followed here are the order of the ids, each of its
\* rotations, and each of these reversed: every order of a catalogue of up to
\* three classes, and eight of the orders of a catalogue of four.
LowestClass(classes) ==
    CHOOSE ac \in classes : \A other \in classes : ClassRank(ac.ID) <= ClassRank(other.ID)

RECURSIVE Ascending(_)
Ascending(classes) ==
    IF classes = {} THEN <<>>
    ELSE <<LowestClass(classes)>> \o Ascending(classes \ {LowestClass(classes)})

Rotations(s) == {SubSeq(s, k, Len(s)) \o SubSeq(s, 1, k - 1) : k \in 1..Len(s)}

Reversed(s) == [i \in 1..Len(s) |-> s[Len(s) + 1 - i]]

Orders(classes) ==
    IF classes = {} THEN {<<>>}
    ELSE Rotations(Ascending(classes)) \cup {Reversed(s) : s \in Rotations(Ascending(classes))}

AttackPathConfigs ==
    {DefaultAttackPathConfig,
     [MaxDepth |-> 0, BeamWidth |-> 0, RiskThreshold |-> 0, StartNodeTypes |-> <<>>,
      ObjectiveNodeTypes |-> <<>>, ROEPolicy |-> "nil"],
     [MaxDepth |-> 1, BeamWidth |-> 0, RiskThreshold |-> 30,
      StartNodeTypes |-> <<NodeTypeEvidence>>,
      ObjectiveNodeTypes |-> <<NodeTypeTechnique>>, ROEPolicy |-> "nil"],
     [MaxDepth |-> 2, BeamWidth |-> 2, RiskThreshold |-> 0,
      StartNodeTypes |-> <<NodeTypeEvidence>>,
      ObjectiveNodeTypes |-> <<NodeTypeHypothesis, NodeTypeTechnique>>, ROEPolicy |-> "allow"],
     [MaxDepth |-> 3, BeamWidth |-> 25, RiskThreshold |-> 200,
      StartNodeTypes |-> <<NodeTypeEvidence>>,
      ObjectiveNodeTypes |-> <<NodeTypeHypothesis>>, ROEPolicy |-> "cautious"]}

CampaignOptionSets ==
    {[MaxDepth |-> 0, RiskTolerance |-> 0, ConfidenceThreshold |-> 0, BeamWidth |-> 0,
      TopN |-> 0, ObjectiveBiasWeight |-> 0],
     [MaxDepth |-> 3, RiskTolerance |-> 50, ConfidenceThreshold |-> 60, BeamWidth |-> 5,
      TopN |-> 5, ObjectiveBiasWeight |-> 35],
     [MaxDepth |-> 2, RiskTolerance |-> 100, ConfidenceThreshold |-> 40, BeamWidth |-> 2,
      TopN |-> 1, ObjectiveBiasWeight |-> 50]}

Objectives == {"", NodeTypeHypothesis, NodeTypeTechnique, NodeTypeAttackPath}

\* live graphs: empty, one evidence node, and that node with its hypothesis
SeedEvidence ==
    [id |-> EvidenceID(1, "T1595"), type |-> NodeTypeEvidence, success |-> "true",
     confidence |-> 0]

PlanGraphs ==
    {NewGraph,
     UpsertNode(NewGraph, SeedEvidence),
     InsertHypotheses(UpsertNode(NewGraph, SeedEvidence),
                      GenerateHypotheses(UpsertNode(NewGraph, SeedEvidence)))}

PlanExecutions == {0, 3}

InitPlan ==
    /\ campaign \in {[status |-> IF n = 0 THEN StatusInitialized ELSE StatusRunning,
                      executions |-> n] : n \in PlanExecutions}
    /\ exposure = NewTracker(20)
    /\ now = 1
    /\ seq = 1
    /\ engine = None
    /\ registry = {}
    /\ xgraph = NewGraph
    /\ graph \in PlanGraphs
    /\ effects = ListedEffects(registry)
    /\ cycle = [Target |-> "", AllowedTechniques |-> <<>>, Executor |-> FALSE]
    /\ actionBinder \in Catalogues
    /\ attackPathConfig \in AttackPathConfigs
    /\ mu = IdleMutex
    /\ last = Returned("init", "", OK, None)

\* Engine.ExpandAttackPaths(), the binder handing the classes out in order.
\* A planning call is taken once in a behaviour: the second call of a
\* behaviour starts from what the first one left.
ExpandAttackPathsReturned(order, r) ==
    /\ graph' = r.g
    /\ last' = [Returned("ExpandAttackPaths", "", r.err, r.paths) EXCEPT !.args = <<order>>]
    /\ UNCHANGED <<campaign, exposure, now, seq, engine, registry, actionBinder,
                   attackPathConfig, mu, xgraph, effects, cycle>>

ExpandAttackPathsCall(order) ==
    /\ last.op = "init"
    /\ ExpandAttackPathsReturned(order, ExpandAttackPaths(graph, order, attackPathConfig,
                                                          campaign.executions))

\* Engine.PlanCampaign(objective, opts), the binder handing the classes out in
\* order
PlanCampaignReturned(order, objective, opts, r) ==
    /\ graph' = r.g
    /\ last' = [Returned("PlanCampaign", "", r.err, r.campaigns)
                   EXCEPT !.args = <<order, objective, opts>>]
    /\ UNCHANGED <<campaign, exposure, now, seq, engine, registry, actionBinder,
                   attackPathConfig, mu, xgraph, effects, cycle>>

PlanCampaignCall(order, objective, opts) ==
    /\ last.op = "init"
    /\ PlanCampaignReturned(order, objective, opts,
                            PlanCampaign(graph, order, objective, opts, campaign.executions))

\* DefaultActionBinder.MatchAndGenerate(graph, st), the map handing the
\* classes out in order
MatchAndGenerateCall(order) ==
    /\ last.op = "init"
    /\ last' = [Returned("MatchAndGenerate", "", OK,
                         MatchAndGenerate(order, graph, campaign.executions))
                   EXCEPT !.args = <<order>>]
    /\ UNCHANGED <<campaign, exposure, now, seq, engine, registry, actionBinder,
                   attackPathConfig, mu, xgraph, graph, effects, cycle>>

NextPlan ==
    \/ \E order \in Orders(actionBinder) : MatchAndGenerateCall(order)
    \/ \E order \in Orders(actionBinder) : ExpandAttackPathsCall(order)
    \/ \E order \in Orders(actionBinder), objective \in Objectives,
          opts \in CampaignOptionSets : PlanCampaignCall(order, objective, opts)

SpecPlan == InitPlan /\ [][NextPlan]_vars

(***************************************************************************)
(* Campaign planning under beams of several widths.  A ladder catalogue    *)
(* has two first steps, one of them the only way to the objective in       *)
(* three steps; a fan catalogue has three first steps that each reach the  *)
(* objective in two.                                                       *)
(***************************************************************************)
MaxBeamWidth == 3

BeamClass(id, pattern, nodes, edges, risk, boost) ==
    [ID |-> id, Phase |-> PhaseRecon, Preconditions |-> <<pattern>>, ProducesNodes |-> nodes,
     ProducesEdges |-> edges, RiskWeight |-> risk, ConfidenceBoost |-> boost]

EdgePattern(edge) == [RequiredNodeTypes |-> <<>>, RequiredEdges |-> <<edge>>]

LadderCatalogue ==
    {BeamClass("AC-1", Pattern(<<NodeTypeEvidence>>), <<>>, <<EdgeTypeSupports>>, 80, 0),
     BeamClass("AC-2", Pattern(<<NodeTypeEvidence>>), <<NodeTypeHypothesis>>, <<>>, 120, 0),
     BeamClass("AC-3", EdgePattern(EdgeTypeSupports), <<>>, <<EdgeTypeEnables>>, 80, 0),
     BeamClass("AC-4", EdgePattern(EdgeTypeEnables), <<NodeTypeAttackPath>>, <<>>, 10, 25),
     BeamClass("AC-5", Pattern(<<NodeTypeHypothesis>>), <<>>, <<EdgeTypeRefines>>, 10, 45),
     BeamClass("AC-6", Pattern(<<NodeTypeHypothesis>>), <<NodeTypeHypothesis>>, <<>>, 10, 45)}

FanCatalogue ==
    {BeamClass("AC-1", Pattern(<<NodeTypeEvidence>>), <<NodeTypeHypothesis>>, <<>>, 10, 20),
     BeamClass("AC-2", Pattern(<<NodeTypeEvidence>>), <<NodeTypeHypothesis>>, <<>>, 10, 18),
     BeamClass("AC-3", Pattern(<<NodeTypeEvidence>>), <<NodeTypeHypothesis>>, <<>>, 10, 15),
     BeamClass("AC-4", Pattern(<<NodeTypeHypothesis>>), <<NodeTypeAttackPath>>, <<>>, 10, 30)}

BeamCatalogues == {LadderCatalogue, FanCatalogue, {ClassByID("AC-1"), ClassByID("AC-2")}}

BeamOptionSets ==
    {[MaxDepth |-> depth, RiskTolerance |-> 200, ConfidenceThreshold |-> 40,
      BeamWidth |-> width, TopN |-> topN, ObjectiveBiasWeight |-> 35] :
        depth \in {2, 3}, width \in 1..MaxBeamWidth, topN \in {1, 10}}

InitBeam ==
    /\ campaign \in {[status |-> IF n = 0 THEN StatusInitialized ELSE StatusRunning,
                      executions |-> n] : n \in PlanExecutions}
    /\ exposure = NewTracker(20)
    /\ now = 1
    /\ seq = 1
    /\ engine = None
    /\ registry = {}
    /\ xgraph = NewGraph
    /\ graph \in PlanGraphs
    /\ effects = ListedEffects(registry)
    /\ cycle = [Target |-> "", AllowedTechniques |-> <<>>, Executor |-> FALSE]
    /\ actionBinder \in BeamCatalogues
    /\ attackPathConfig = DefaultAttackPathConfig
    /\ mu = IdleMutex
    /\ last = Returned("init", "", OK, None)

NextBeam ==
    \E order \in Orders(actionBinder), objective \in {NodeTypeAttackPath, NodeTypeTechnique},
       opts \in BeamOptionSets : PlanCampaignCall(order, objective, opts)

SpecBeam == InitBeam /\ [][NextBeam]_vars

(***************************************************************************)
(* Evidence ingestion and planning interleaved on one reasoning engine.    *)
(* IngestEvidence names its node after time.Now().UTC().UnixNano(), a      *)
(* reading of the wall clock: two readings may be equal, and a later one   *)
(* may be lower after the clock was set back.                              *)
(***************************************************************************)
MaxReadings == 2
\* cap on the edge list before a plan may start
MaxPlanEdges == 3

EvidenceEvents ==
    {[TechniqueID |-> id, Target |-> target, Success |-> TRUE] :
        id \in {"T1046", "T1595"}, target \in {"", "host-1"}}

InitEvidence ==
    /\ campaign = NewCampaign
    /\ exposure = NewTracker(20)
    /\ now = 1
    /\ seq = 0
    /\ engine = None
    /\ registry = Registrable
    /\ xgraph = NewGraph
    /\ graph = NewGraph
    /\ effects = ListedEffects(registry)
    /\ cycle = [Target |-> "", AllowedTechniques |-> <<>>, Executor |-> FALSE]
    /\ actionBinder = {}
    /\ attackPathConfig = DefaultAttackPathConfig
    /\ mu = IdleMutex
    /\ last = Returned("init", "", OK, None)

\* Engine.IngestEvidence(event) when the clock reads nano
IngestEvidenceCall(event, nano) ==
    /\ graph' = IngestEvidence(graph, event, nano).g
    /\ seq' = nano
    /\ last' = [Returned("IngestEvidence", "", IngestEvidence(graph, event, nano).err, None)
                   EXCEPT !.args = <<event, nano>>]
    /\ UNCHANGED <<campaign, exposure, now, engine, registry, actionBinder,
                   attackPathConfig, mu, xgraph, effects, cycle>>

\* Engine.PlanNextAction(query) of an engine with no expander and no bound
\* class
PlanCall(query) ==
    /\ Len(graph.edges) <= MaxPlanEdges
    /\ graph' = PlanNextAction(graph, query, effects, "none").g
    /\ last' = [Returned("PlanNextAction", "", PlanNextAction(graph, query, effects, "none").err,
                         PlanNextAction(graph, query, effects, "none").decision)
                   EXCEPT !.args = <<query>>]
    /\ UNCHANGED <<campaign, exposure, now, seq, engine, registry, actionBinder,
                   attackPathConfig, mu, xgraph, effects, cycle>>

NextEvidence ==
    \/ \E event \in EvidenceEvents, nano \in 1..MaxReadings : IngestEvidenceCall(event, nano)
    \/ \E allowed \in {<<>>, <<"T1046">>} :
          PlanCall([Target |-> "host-1", AllowedTechniques |-> allowed, TopN |-> 1])

SpecEvidence == InitEvidence /\ [][NextEvidence]_vars

(***************************************************************************)
(* Planning the next action over a bound catalogue.  The inputs are drawn  *)
(* when the engine is set up: the classes bound to it, the effects         *)
(* registered with it, the live graph and the executions its campaign      *)
(* state has recorded.                                                     *)
(***************************************************************************)
NextCatalogues ==
    {{ClassByID(id) : id \in ids} : ids \in {{}, {"AC-1", "AC-2"}, {"AC-1", "AC-6"}, {"AC-6", "AC-7"}}}

\* an effect whose score is 0.025 below the score of StrongEffect
NearEffect == [ActionClassID |-> "", Impact |-> 85, Risk |-> 10, Stealth |-> 80]

EffectRegistries ==
    {<<>>,
     [id \in {"T1595"} |-> DefaultEffect],
     [id \in {"T1046", "T1595"} |->
         IF id = "T1046" THEN StrongEffect ELSE [NearEffect EXCEPT !.ActionClassID = "AC-6"]],
     [id \in {"T1046", "T1595"} |->
         IF id = "T1046" THEN [NearEffect EXCEPT !.ActionClassID = "AC-6"]
         ELSE [StrongEffect EXCEPT !.ActionClassID = "AC-7"]]}

NextQueries ==
    {[Target |-> "host-1", AllowedTechniques |-> allowed, TopN |-> topN] :
        allowed \in {<<>>, <<"T1595">>, <<"T1595", "T1046">>, <<"T1046">>},
        topN \in {0, 1, 2}}

InitNext ==
    /\ campaign \in {[status |-> IF n = 0 THEN StatusInitialized ELSE StatusRunning,
                      executions |-> n] : n \in PlanExecutions}
    /\ exposure = NewTracker(20)
    /\ now = 1
    /\ seq = 1
    /\ engine = None
    /\ registry = {}
    /\ xgraph = NewGraph
    /\ graph \in PlanGraphs
    /\ effects \in EffectRegistries
    /\ cycle = [Target |-> "", AllowedTechniques |-> <<>>, Executor |-> FALSE]
    /\ actionBinder \in NextCatalogues
    /\ attackPathConfig = DefaultAttackPathConfig
    /\ mu = IdleMutex
    /\ last = Returned("init", "", OK, None)

\* the paths PlanNextAction expands over graph g once its hypotheses are in
\* it: none outside the enriching phases
PathsPlanned(g, classes, cfg, executions) ==
    IF phaseForState(executions) \in EnrichingPhases
    THEN ExpandAttackPaths(InsertHypotheses(g, GenerateHypotheses(g)
                                                  \o MatchAndGenerate(classes, g, executions)),
                           classes, cfg, executions).paths
    ELSE <<>>

\* Engine.PlanNextAction(query); args keeps the paths the call expanded
PlanNextActionReturned(order, query, r) ==
    /\ graph' = r.g
    /\ last' = [Returned("PlanNextAction", "", r.err, r.decision)
                   EXCEPT !.args = <<order, query,
                                     PathsPlanned(graph, order, attackPathConfig,
                                                  campaign.executions)>>]
    /\ UNCHANGED <<campaign, exposure, now, seq, engine, registry, actionBinder,
                   attackPathConfig, mu, xgraph, effects, cycle>>

PlanNextActionCall(order, query) ==
    /\ last.op = "init"
    /\ PlanNextActionReturned(order, query,
                              PlanNextActionBound(graph, order, attackPathConfig,
                                                  campaign.executions, query, effects))

NextNext ==
    \E order \in Orders(actionBinder), query \in NextQueries : PlanNextActionCall(order, query)

SpecNext == InitNext /\ [][NextNext]_vars

(***************************************************************************)
(* Simulated cycles: Engine.SimulateCampaignCycles.  The engine's state is *)
(* the campaign record with two more fields: nil, TRUE while no RunCycle   *)
(* has handed the engine a state, and previousActions, the action memory   *)
(* (every entry is recorded as a successful reconnaissance, so the         *)
(* exposure knowledge of an action is a tenth of its count in the list     *)
(* and no attempt is a failed one).                                        *)
(***************************************************************************)
MaxCycles == 3
CycleCounts == (0 - 1)..MaxCycles

\* Campaign.RecordActionMemory(actionID, true, true)
RecordActionMemory(c, actionID) ==
    IF actionID = "" THEN c ELSE [c EXCEPT !.previousActions = Append(@, actionID)]

EmptyTrace ==
    [StateProgression |-> <<>>, PhaseTransitions |-> <<>>, ConfidenceEvolution |-> <<>>]

\* one pass of the loop, r being what PlanNextAction returned
SimulatedCycle(s, r) ==
    [g |-> r.g,
     c |-> IF r.err = OK /\ r.decision # None /\ ~s.c.nil
           THEN RecordActionMemory(s.c, r.decision[1].Selected.ActionClassID)
           ELSE s.c,
     trace |-> [StateProgression |->
                    Append(s.trace.StateProgression,
                           IF s.c.nil THEN StatusInitialized ELSE s.c.status),
                PhaseTransitions |-> Append(s.trace.PhaseTransitions, PhaseRecon),
                ConfidenceEvolution |->
                    Append(s.trace.ConfidenceEvolution,
                           IF r.err = OK /\ r.decision # None
                           THEN r.decision[1].Selected.Score ELSE 0)]]

RECURSIVE SimulateLoop(_, _, _, _, _, _)
SimulateLoop(s, n, classes, cfg, query, effs) ==
    IF n = 0 THEN s
    ELSE SimulateLoop(SimulatedCycle(s, PlanNextActionBound(s.g, classes, cfg,
                                                            s.c.executions, query, effs)),
                      n - 1, classes, cfg, query, effs)

\* the graph and the state after the call, the trace (None when the call
\* does not return) and the error: making a slice of negative capacity
\* panics before n is looked at
SimulateCampaignCycles(g, c, n, classes, cfg, cyc, effs) ==
    IF n < 0
    THEN [g |-> g, c |-> c, trace |-> None, err |-> "panic: makeslice: cap out of range"]
    ELSE LET s == SimulateLoop([g |-> g, c |-> c, trace |-> EmptyTrace], n, classes, cfg,
                               [Target |-> cyc.Target,
                                AllowedTechniques |-> cyc.AllowedTechniques, TopN |-> 1],
                               effs)
         IN  [g |-> s.g, c |-> s.c, trace |-> Some(s.trace), err |-> OK]

SimulatedStates ==
    {[nil |-> TRUE, status |-> StatusInitialized, executions |-> 0, previousActions |-> <<>>]}
        \cup {[nil |-> FALSE, status |-> st, executions |-> n, previousActions |-> <<>>] :
                 st \in {StatusRunning, StatusHalted}, n \in {0, 3, 5}}

InitSimulate ==
    /\ campaign \in SimulatedStates
    /\ exposure = NewTracker(20)
    /\ now = 1
    /\ seq = 1
    /\ engine = None
    /\ registry = {}
    /\ xgraph = NewGraph
    /\ graph \in PlanGraphs
    /\ effects \in EffectRegistries
    /\ cycle \in {[Target |-> "host-1", AllowedTechniques |-> allowed, Executor |-> FALSE] :
                     allowed \in {<<>>, <<"T1595">>}}
    /\ actionBinder \in NextCatalogues
    /\ attackPathConfig = DefaultAttackPathConfig
    /\ mu = IdleMutex
    /\ last = Returned("init", "", OK, None)

SimulateReturned(n, order, r) ==
    /\ graph' = r.g
    /\ campaign' = r.c
    /\ last' = [Returned("SimulateCampaignCycles", "", r.err, r.trace)
                   EXCEPT !.args = <<n, order>>]
    /\ UNCHANGED <<exposure, now, seq, engine, registry, actionBinder,
                   attackPathConfig, mu, xgraph, effects, cycle>>

SimulateCampaignCyclesCall(n, order) ==
    /\ last.op = "init"
    /\ SimulateReturned(n, order,
                        SimulateCampaignCycles(graph, campaign, n, order, attackPathConfig,
                                               cycle, effects))

NextSimulate ==
    \E n \in CycleCounts, order \in Orders(actionBinder) : SimulateCampaignCyclesCall(n, order)

SpecSimulate == InitSimulate /\ [][NextSimulate]_vars

(***************************************************************************)
(* Calls on one tracker from several goroutines: two readers calling        *)
(* Score, Level, Halted and Snapshot, and one writer calling Add.  A step   *)
(* is one lock operation of a call together with the code up to the next.   *)
(***************************************************************************)
TrackerMaxScores == {1, 3, 16}
TrackerDeltas == {0, 1, 5}

InitTracker ==
    /\ campaign = NewCampaign
    /\ exposure \in {NewTracker(m) : m \in TrackerMaxScores}
    /\ now = 1
    /\ seq = 0
    /\ engine = None
    /\ registry = {}
    /\ xgraph = NewGraph
    /\ graph = NewGraph
    /\ effects = ListedEffects(registry)
    /\ cycle = [Target |-> "", AllowedTechniques |-> <<>>, Executor |-> FALSE]
    /\ actionBinder = {}
    /\ attackPathConfig = DefaultAttackPathConfig
    /\ mu = IdleMutex
    /\ last = Returned("init", "", OK, None)

\* what a reader's method returns on tracker t, as the Snapshot fields it
\* holds: Score, Level and Halted return one of them and Snapshot all
\* (LastUpdated is left out)
ReaderResult(method, t) ==
    [Score |-> IF method \in {"Score", "Snapshot"} THEN Some(t.score) ELSE None,
     MaxScore |-> IF method = "Snapshot" THEN Some(t.maxScore) ELSE None,
     Level |-> IF method \in {"Level", "Snapshot"} THEN Some(TrackerLevel(t)) ELSE None,
     Halted |-> IF method \in {"Halted", "Snapshot"} THEN Some(t.halted) ELSE None]

\* goroutine p calls a reader method
ReaderCall(p, method) ==
    /\ mu.pc[p] = "idle"
    /\ mu' = [mu EXCEPT !.pc[p] = "RLock", !.call[p] = method]
    /\ UNCHANGED <<campaign, exposure, now, seq, engine, registry, xgraph, graph, effects,
                   cycle, actionBinder, attackPathConfig, last>>

\* t.mu.RLock() at the head of Score, Level, Halted and Snapshot
ReaderRLock(p) ==
    /\ mu.pc[p] = "RLock"
    /\ RLockReady(mu)
    /\ mu' = [RLocked(mu) EXCEPT !.pc[p] = IF mu.call[p] = "Snapshot" THEN "SnapshotLevel"
                                           ELSE "RUnlock"]
    /\ UNCHANGED <<campaign, exposure, now, seq, engine, registry, xgraph, graph, effects,
                   cycle, actionBinder, attackPathConfig, last>>

\* Snapshot, holding the read lock, calls t.Level(): its t.mu.RLock()
SnapshotLevelRLock(p) ==
    /\ mu.pc[p] = "SnapshotLevel"
    /\ RLockReady(mu)
    /\ mu' = [RLocked(mu) EXCEPT !.pc[p] = "SnapshotLevelRUnlock"]
    /\ UNCHANGED <<campaign, exposure, now, seq, engine, registry, xgraph, graph, effects,
                   cycle, actionBinder, attackPathConfig, last>>

\* the Level() that Snapshot called returns: its deferred t.mu.RUnlock()
SnapshotLevelRUnlock(p) ==
    /\ mu.pc[p] = "SnapshotLevelRUnlock"
    /\ mu' = [RUnlocked(mu) EXCEPT !.pc[p] = "RUnlock"]
    /\ UNCHANGED <<campaign, exposure, now, seq, engine, registry, xgraph, graph, effects,
                   cycle, actionBinder, attackPathConfig, last>>

\* the reader method returns: its result and its deferred t.mu.RUnlock()
ReaderReturn(p) ==
    /\ mu.pc[p] = "RUnlock"
    /\ mu' = [RUnlocked(mu) EXCEPT !.pc[p] = "idle", !.call[p] = ""]
    /\ last' = Returned(mu.call[p], "", OK, Some(ReaderResult(mu.call[p], exposure)))
    /\ UNCHANGED <<campaign, exposure, now, seq, engine, registry, xgraph, graph, effects,
                   cycle, actionBinder, attackPathConfig>>

\* the writer calls Add(delta)
AddCall(delta) ==
    /\ mu.pc[TrackerWriter] = "idle"
    /\ mu' = [mu EXCEPT !.pc[TrackerWriter] = "Lock", !.delta = delta]
    /\ UNCHANGED <<campaign, exposure, now, seq, engine, registry, xgraph, graph, effects,
                   cycle, actionBinder, attackPathConfig, last>>

\* t.mu.Lock() at the head of Add
AddLock ==
    /\ mu.pc[TrackerWriter] = "Lock"
    /\ mu' = [Locked(mu) EXCEPT !.pc[TrackerWriter] = IF mu.readers = 0 THEN "Unlock"
                                                      ELSE "LockWait"]
    /\ UNCHANGED <<campaign, exposure, now, seq, engine, registry, xgraph, graph, effects,
                   cycle, actionBinder, attackPathConfig, last>>

\* the readers the writer waited for have left: Lock returns
AddLockGranted ==
    /\ mu.pc[TrackerWriter] = "LockWait"
    /\ LockReady(mu)
    /\ mu' = [mu EXCEPT !.writer = "held", !.pc[TrackerWriter] = "Unlock"]
    /\ UNCHANGED <<campaign, exposure, now, seq, engine, registry, xgraph, graph, effects,
                   cycle, actionBinder, attackPathConfig, last>>

\* the body of Add under the lock, and its deferred t.mu.Unlock()
AddReturn ==
    /\ mu.pc[TrackerWriter] = "Unlock"
    /\ exposure' = TrackerAdd(exposure, mu.delta).t
    /\ mu' = [Unlocked(mu) EXCEPT !.pc[TrackerWriter] = "idle", !.delta = 0]
    /\ last' = Returned("Add", "", TrackerAdd(exposure, mu.delta).err, None)
    /\ UNCHANGED <<campaign, now, seq, engine, registry, xgraph, graph, effects,
                   cycle, actionBinder, attackPathConfig>>

\* the steps a goroutine takes once its call is under way
TrackerProgress ==
    \/ \E p \in TrackerReaders : ReaderRLock(p)
    \/ \E p \in TrackerReaders : SnapshotLevelRLock(p)
    \/ \E p \in TrackerReaders : SnapshotLevelRUnlock(p)
    \/ \E p \in TrackerReaders : ReaderReturn(p)
    \/ AddLock
    \/ AddLockGranted
    \/ AddReturn

NextTracker ==
    \/ \E p \in TrackerReaders, method \in ReaderMethods : ReaderCall(p, method)
    \/ \E delta \in TrackerDeltas : AddCall(delta)
    \/ TrackerProgress

SpecTracker == InitTracker /\ [][NextTracker]_vars

\* A goroutine that can take a step takes it in the end, and a reader that
\* can take the read lock again and again takes it in the end: Unlock hands
\* the lock to the readers that wait for it.
TrackerFairness ==
    /\ \A p \in TrackerReaders :
           /\ SF_vars(ReaderRLock(p))
           /\ SF_vars(SnapshotLevelRLock(p))
           /\ WF_vars(SnapshotLevelRUnlock(p))
           /\ WF_vars(ReaderReturn(p))
    /\ WF_vars(AddLock)
    /\ WF_vars(AddLockGranted)
    /\ WF_vars(AddReturn)

SpecTrackerFair == SpecTracker /\ TrackerFairness

(***************************************************************************)
(* The reasoning graph called directly: Graph.UpsertNode and Graph.AddEdge *)
(* on a graph that starts empty, with nodes and edges over two ids and the *)
(* empty id.                                                               *)
(***************************************************************************)
\* cap on the edge list of the graph under direct calls
MaxGraphEdges == 2

GraphNodeIDs == {EvidenceID(1, "T1595"), TechniqueNodeID("T1595")}

GraphNodeInputs ==
    {[id |-> i, type |-> ty, success |-> "", confidence |-> 0] :
        i \in GraphNodeIDs \cup {EmptyID}, ty \in {NodeTypeEvidence, NodeTypeTechnique}}

GraphEdgeInputs ==
    {[from |-> f, to |-> t, type |-> EdgeTypeSupports, weight |-> 1] :
        f \in GraphNodeIDs \cup {EmptyID}, t \in GraphNodeIDs \cup {EmptyID}}

InitGraph ==
    /\ campaign = NewCampaign
    /\ exposure = NewTracker(20)
    /\ now = 1
    /\ seq = 0
    /\ engine = None
    /\ registry = {}
    /\ xgraph = NewGraph
    /\ graph = NewGraph
    /\ effects = ListedEffects(registry)
    /\ cycle = [Target |-> "", AllowedTechniques |-> <<>>, Executor |-> FALSE]
    /\ actionBinder = {}
    /\ attackPathConfig = DefaultAttackPathConfig
    /\ mu = IdleMutex
    /\ last = Returned("init", "", OK, None)

\* Graph.UpsertNode(node)
GraphUpsertNode(node) ==
    /\ graph' = UpsertNode(graph, node)
    /\ last' = [Returned("UpsertNode", "", OK, None) EXCEPT !.args = <<node>>]
    /\ UNCHANGED <<campaign, exposure, now, seq, engine, registry, actionBinder,
                   attackPathConfig, mu, xgraph, effects, cycle>>

\* Graph.AddEdge(edge)
GraphAddEdge(edge) ==
    /\ Len(graph.edges) < MaxGraphEdges
    /\ graph' = AddEdge(graph, edge).g
    /\ last' = [Returned("AddEdge", "", AddEdge(graph, edge).err, None) EXCEPT !.args = <<edge>>]
    /\ UNCHANGED <<campaign, exposure, now, seq, engine, registry, actionBinder,
                   attackPathConfig, mu, xgraph, effects, cycle>>

\* the pattern lists matched against the graph
PatternLists ==
    {<<>>,
     <<Pattern(<<NodeTypeEvidence>>)>>,
     <<Pattern(<<NodeTypeHypothesis>>)>>,
     <<Pattern(<<NodeTypeEvidence, NodeTypeTechnique>>)>>,
     <<[RequiredNodeTypes |-> <<>>, RequiredEdges |-> <<EdgeTypeSupports>>]>>,
     <<[RequiredNodeTypes |-> <<>>, RequiredEdges |-> <<EdgeTypeEnables>>]>>,
     <<Pattern(<<NodeTypeEvidence>>),
       [RequiredNodeTypes |-> <<NodeTypeTechnique>>, RequiredEdges |-> <<EdgeTypeSupports>>]>>}

\* MatchPatterns(graph, patterns) and, beside it,
\* matchSnapshotPatterns(snapshotFromGraph(graph), patterns)
MatchCall(patterns) ==
    /\ last' = [Returned("MatchPatterns", "", OK,
                         Some([graph |-> MatchPatterns(graph, patterns),
                               snapshot |-> matchSnapshotPatterns(snapshotFromGraph(graph),
                                                                  patterns)]))
                   EXCEPT !.args = <<patterns>>]
    /\ UNCHANGED <<campaign, exposure, now, seq, engine, registry, actionBinder,
                   attackPathConfig, mu, xgraph, graph, effects, cycle>>

NextGraph ==
    \/ \E node \in GraphNodeInputs : GraphUpsertNode(node)
    \/ \E edge \in GraphEdgeInputs : GraphAddEdge(edge)
    \/ \E patterns \in PatternLists : MatchCall(patterns)

SpecGraph == InitGraph /\ [][NextGraph]_vars

(***************************************************************************)
(* Evidence artifacts called directly: one artifact, Sign and Verify on    *)
(* it, and its holder assigning its fields.  last.art holds the artifact,  *)
(* the artifact as it was when Sign succeeded (None before), what the last *)
(* Verify returned (None before) and the assignments made so far.          *)
(***************************************************************************)
\* cap on the assignments to the fields of the artifact
MaxTampers == 2

SignedFields ==
    {"ArtifactID", "CampaignID", "TechniqueID", "Target", "ExecutedAt", "Success",
     "Output", "ExposureScore"}

FieldValues(field) ==
    CASE field = "ArtifactID" -> {0, 1, 2}
      [] field = "CampaignID" -> {"c1", "c2"}
      [] field = "TechniqueID" -> {"T1595", "T1046"}
      [] field = "Target" -> {"host-1", "host-2"}
      [] field = "ExecutedAt" -> {1, 2}
      [] field = "Success" -> BOOLEAN
      [] field = "Output" -> {<<65>>, <<254>>, <<255>>}
      [] field = "ExposureScore" -> {0, executionExposure}

ArtifactInputs ==
    {[ArtifactID |-> id, CampaignID |-> "c1", TechniqueID |-> "T1595", Target |-> "host-1",
      ExecutedAt |-> 1, Success |-> TRUE, Output |-> out, ExposureScore |-> executionExposure,
      Integrity |-> <<>>] : id \in {0, 1}, out \in FieldValues("Output")}

Held(a, signed, verified, tampers) ==
    Some([artifact |-> a, signed |-> signed, verified |-> verified, tampers |-> tampers])

InitArtifact ==
    /\ campaign = NewCampaign
    /\ exposure = NewTracker(20)
    /\ now = 1
    /\ seq = 0
    /\ engine = None
    /\ registry = {}
    /\ xgraph = NewGraph
    /\ graph = NewGraph
    /\ effects = ListedEffects(registry)
    /\ cycle = [Target |-> "", AllowedTechniques |-> <<>>, Executor |-> FALSE]
    /\ actionBinder = {}
    /\ attackPathConfig = DefaultAttackPathConfig
    /\ mu = IdleMutex
    /\ \E a \in ArtifactInputs : last = Returned("init", "", OK, Held(a, None, None, 0))

\* Artifact.Sign()
SignCall ==
    LET h == last.art[1]
        r == ArtifactSign(h.artifact)
    IN  /\ last' = Returned("Sign", "", r.err,
                            Held(r.a, IF r.err = OK THEN Some(r.a) ELSE h.signed,
                                 None, h.tampers))
        /\ UNCHANGED <<campaign, exposure, now, seq, engine, registry, actionBinder,
                       attackPathConfig, mu, xgraph, graph, effects, cycle>>

\* Artifact.Verify()
VerifyCall ==
    LET h == last.art[1]
        r == ArtifactVerify(h.artifact)
    IN  /\ last' = Returned("Verify", "", r.err,
                            Held(h.artifact, h.signed, Some(r.ok), h.tampers))
        /\ UNCHANGED <<campaign, exposure, now, seq, engine, registry, actionBinder,
                       attackPathConfig, mu, xgraph, graph, effects, cycle>>

\* the holder of the artifact assigns a new value to one of its fields
SetField(field, value) ==
    LET h == last.art[1]
    IN  /\ h.tampers < MaxTampers
        /\ h.artifact[field] # value
        /\ last' = Returned("SetField", "", OK,
                            Held([h.artifact EXCEPT ![field] = value], h.signed,
                                 None, h.tampers + 1))
        /\ UNCHANGED <<campaign, exposure, now, seq, engine, registry, actionBinder,
                       attackPathConfig, mu, xgraph, graph, effects, cycle>>

NextArtifact ==
    \/ SignCall
    \/ VerifyCall
    \/ \E field \in SignedFields : \E value \in FieldValues(field) : SetField(field, value)

SpecArtifact == InitArtifact /\ [][NextArtifact]_vars

(***************************************************************************)
(* Properties.  A step whose new last.op is "Run" is a step of Run, and    *)
(* likewise for the other operations: every operation writes its own name. *)
(***************************************************************************)
NotRunnable == {StatusHalted, StatusCompleted}
Runnable == {StatusInitialized, StatusRunning}

\* C1: a Run invoked while the campaign is Halted or Completed returns an error
\* and no artifact, and leaves the campaign status, the execution counter and the
\* exposure score as they were.
C1_RunRefusedWhenNotRunnable ==
    [][(last'.op = "Run" /\ campaign.status \in NotRunnable)
          => /\ last'.err # OK
             /\ last'.art = None
             /\ campaign'.status = campaign.status
             /\ campaign'.executions = campaign.executions
             /\ exposure'.score = exposure.score]_vars

\* a live Run was refused on a Completed campaign that had recorded an execution
C1_Witness ==
    /\ last.op = "Run" /\ last.ctx = "live" /\ last.err = ErrNotRunnable
    /\ campaign.status = StatusCompleted /\ campaign.executions > 0

\* C2: Halted and Completed are absorbing: from either, no step changes the
\* status or the execution counter, and Start, RecordExecution and Complete each
\* return an error.
C2_TerminalStatusAbsorbing ==
    [][campaign.status \in NotRunnable
          => /\ campaign'.status = campaign.status
             /\ campaign'.executions = campaign.executions
             /\ last'.op \in {"Start", "RecordExecution", "Complete"} => last'.err # OK]_vars

\* RecordExecution was refused on a Halted campaign
C2_Witness ==
    /\ last.op = "RecordExecution" /\ last.err # OK
    /\ campaign.status = StatusHalted /\ campaign.executions > 0

\* C3, as stated: a Run invoked with the tracker halted on an Initialized or
\* Running campaign returns an error, records no execution, adds no exposure,
\* produces no artifact and leaves the campaign Halted.
C3_AsStated ==
    [][(last'.op = "Run" /\ campaign.status \in Runnable /\ exposure.halted)
          => /\ last'.err # OK
             /\ last'.art = None
             /\ campaign'.executions = campaign.executions
             /\ exposure' = exposure
             /\ campaign'.status = StatusHalted]_vars

\* C3, amended: the same for a Run invoked with a live context (a nil or
\* cancelled context returns before the gate and leaves the status alone); and
\* every Run on the Halted campaign is refused, without execution, exposure or
\* artifact.
C3_HaltedTrackerHaltsCampaign ==
    [][/\ (last'.op = "Run" /\ last'.ctx = "live"
              /\ campaign.status \in Runnable /\ exposure.halted)
          => /\ last'.err # OK
             /\ last'.art = None
             /\ campaign'.executions = campaign.executions
             /\ exposure' = exposure
             /\ campaign'.status = StatusHalted
       /\ (last'.op = "Run" /\ campaign.status = StatusHalted)
          => /\ last'.err # OK
             /\ last'.art = None
             /\ campaign' = campaign
             /\ exposure' = exposure]_vars

\* a live Run met the halted tracker and halted the campaign
C3_Witness ==
    /\ last.op = "Run" /\ last.ctx = "live" /\ last.err = ErrExposureGate
    /\ campaign.status = StatusHalted /\ exposure.halted

\* C4, as stated: with max_score 20 and the executor alone driving campaign and
\* tracker, the cycle that follows two executions returns the exposure error and
\* it is in that cycle that the status becomes Halted.
C4_AsStated ==
    [][(last'.op = "Run" /\ last'.ctx = "live"
           /\ exposure.maxScore = 20 /\ campaign.executions = 2)
          => /\ last'.err = ErrExposureGate
             /\ campaign.status # StatusHalted
             /\ campaign'.status = StatusHalted]_vars

\* C4, amended: with max_score 20 the first execution leaves the tracker open and
\* the campaign Running; the second latches the tracker, halts the campaign in
\* that same cycle and returns the exposure-halt error with the artifact; every
\* cycle after it returns campaign-not-runnable and changes nothing.
C4_HaltInSecondCycle ==
    [][(last'.op = "Run" /\ last'.ctx = "live" /\ exposure.maxScore = 20)
          => /\ (campaign.executions = 0 /\ campaign'.executions = 1)
                => /\ exposure'.score = 10 /\ ~exposure'.halted
                   /\ campaign'.status = StatusRunning
             /\ (campaign.executions = 1 /\ campaign'.executions = 2)
                => /\ exposure'.score = 20 /\ exposure'.halted
                   /\ campaign'.status = StatusHalted
                   /\ last'.err = ErrExposureHalt
                   /\ last'.art # None
             /\ campaign.executions = 2
                => /\ campaign.status = StatusHalted
                   /\ last'.err = ErrNotRunnable
                   /\ last'.art = None
                   /\ campaign' = campaign
                   /\ exposure' = exposure]_vars

\* the cycle after the second execution was refused as not runnable
C4_Witness ==
    /\ last.op = "Run" /\ last.ctx = "live" /\ last.err = ErrNotRunnable
    /\ exposure.maxScore = 20 /\ exposure.score = 20 /\ campaign.executions = 2

\* C5: an Add that brings the score to maxScore or above sets halted; halted
\* never returns to false; an Add on a halted tracker returns an error and
\* leaves the score unchanged.
C5_HaltLatches ==
    [][/\ (last'.op = "Add" /\ last'.err = OK /\ exposure'.score >= exposure'.maxScore)
          => exposure'.halted
       /\ exposure.halted => (exposure'.halted /\ exposure'.score = exposure.score)
       /\ (last'.op = "Add" /\ exposure.halted) => last'.err # OK]_vars

\* an Add was refused by the latched tracker
C5_Witness ==
    /\ last.op = "Add" /\ last.err = "exposure already exceeded; execution halted"
    /\ exposure.halted /\ exposure.score >= exposure.maxScore

\* C6, as stated: no Add makes the score smaller, whatever the delta.
C6_AsStated == [][last'.op = "Add" => exposure'.score >= exposure.score]_vars

\* C7, as stated: every live Run that passes the lifecycle, exposure and ROE
\* gates returns a signed artifact that verifies.
C7_AsStated ==
    [][\A techniqueID \in TechniqueIDs, target \in TargetIDs :
          (/\ Run(techniqueID, target, "live")
           /\ LifecycleGate(campaign) = OK
           /\ ~exposure.halted
           /\ Enforce(engine[1].contract, techniqueID, target, now) = OK)
          => /\ last'.art # None
             /\ ArtifactVerify(last'.art[1]).ok]_vars

\* C8: New on a contract that fails Validate returns an error and no engine and
\* touches neither campaign nor tracker; while no engine exists no step records
\* an execution, adds exposure or returns an artifact; and an engine that exists
\* holds a contract that passed Validate.
C8_InvalidContractBuildsNoEngine ==
    [][/\ \A contract \in ContractInputs :
             (New(contract) /\ ContractValidate(contract, now) # OK)
             => /\ engine' = None
                /\ last'.err # OK
                /\ campaign' = campaign
                /\ exposure' = exposure
       /\ engine' = None
          => /\ campaign' = campaign
             /\ exposure' = exposure
             /\ last'.art = None
       /\ engine' # None
          => \E t \in 1..now : ContractValidate(engine'[1].contract, t) = OK]_vars

\* New refused a non-nil contract, and there is no engine
C8_Witness ==
    /\ last.op = "New" /\ last.err = "invalid intent contract"
    /\ engine = None /\ campaign.executions = 0 /\ exposure.score = 0

\* the four conditions of the ROE: policy allow-list, the contract's techniques,
\* the contract's targets, the contract's window
RoeConditions(c, techniqueID, target, t) ==
    /\ techniqueID \in allowedTechniques
    /\ Contains(c.AllowedTechniques, techniqueID)
    /\ Contains(c.Targets, target)
    /\ c.NotBefore <= t /\ t <= c.NotAfter

\* C9, as stated: Enforce succeeds if and only if the four conditions hold.
C9_AsStated ==
    last.op = "Enforce"
       => (last.err = OK <=> RoeConditions(last.args[1], last.args[2], last.args[3], now))

\* C9, amended: Enforce succeeds if and only if the four conditions hold and
\* the target is not empty (an empty target is refused even when the contract
\* lists it).
C9_EnforceIffConditions ==
    last.op = "Enforce"
       => (last.err = OK <=> (/\ RoeConditions(last.args[1], last.args[2], last.args[3], now)
                              /\ last.args[3] # ""))

\* Enforce refused an empty target that the contract lists, all else holding
C9_Witness ==
    /\ last.op = "Enforce" /\ last.err = "ROE violation: empty target"
    /\ last.args[3] = ""
    /\ RoeConditions(last.args[1], last.args[2], last.args[3], now)

\* C10, as stated: a cycle on a Halted or Completed campaign leaves the graph
\* unchanged.
C10_AsStated ==
    [][(last'.op = "RunCycle" /\ campaign.status \in NotRunnable) => graph' = graph]_vars


(***************************************************************************)
(* Campaign lifecycle transitions                                          *)
(***************************************************************************)
DirectCampaignOps == {"Start", "RecordExecution", "Halt", "Complete"}

\* C11, as stated: every status change made by Start, RecordExecution, Halt or
\* Complete is Initialized to Running, Running to Halted or Running to
\* Completed.
C11_AsStated ==
    [][(last'.op \in DirectCampaignOps /\ campaign'.status # campaign.status)
          => <<campaign.status, campaign'.status>> \in
                {<<StatusInitialized, StatusRunning>>,
                 <<StatusRunning, StatusHalted>>,
                 <<StatusRunning, StatusCompleted>>}]_vars

\* C11, amended: every status change made by Start, RecordExecution, Halt or
\* Complete is Initialized to Running, Running to Halted, Running to Completed
\* or, by Halt alone, Initialized to Halted; Halted and Completed are never left.
C11_StatusChangesForward ==
    [][(last'.op \in DirectCampaignOps /\ campaign'.status # campaign.status)
          => \/ <<campaign.status, campaign'.status>> \in
                   {<<StatusInitialized, StatusRunning>>,
                    <<StatusRunning, StatusHalted>>,
                    <<StatusRunning, StatusCompleted>>}
             \/ /\ last'.op = "Halt"
                /\ <<campaign.status, campaign'.status>> =
                      <<StatusInitialized, StatusHalted>>]_vars

\* Halt succeeded on a campaign that was never given an engine and never
\* recorded an execution, leaving it Halted
C11_Witness ==
    /\ last.op = "Halt" /\ last.err = OK
    /\ campaign.status = StatusHalted /\ campaign.executions = 0
    /\ engine = None


(***************************************************************************)
(* Planning with a failing expander                                        *)
(***************************************************************************)
PlannerQueries ==
    {[Target |-> cfg.Target, AllowedTechniques |-> cfg.AllowedTechniques, TopN |-> 1]
        : cfg \in CycleConfigs}

HypothesisNodes(g) == {nd \in g.nodes : nd.type = NodeTypeHypothesis}

\* C13: on every reachable graph and for every query, PlanNextAction with an
\* expander that returns an error returns the error, the decision (selected and
\* ranked actions) and the hypothesis nodes that it returns and leaves with no
\* expander, and its error is never the expander's.
C13_FailingExpanderIsIgnored ==
    \A query \in PlannerQueries :
        /\ PlanNextAction(graph, query, effects, "failing").err
              = PlanNextAction(graph, query, effects, "none").err
        /\ PlanNextAction(graph, query, effects, "failing").decision
              = PlanNextAction(graph, query, effects, "none").decision
        /\ HypothesisNodes(PlanNextAction(graph, query, effects, "failing").g)
              = HypothesisNodes(PlanNextAction(graph, query, effects, "none").g)
        /\ PlanNextAction(graph, query, effects, "failing").err # Expand("failing").err

\* a cycle planned with the failing expander selected a technique and left
\* the deterministic hypotheses, and only those, in the graph
C13_Witness ==
    /\ last.op = "RunCycle" /\ last.args = <<"failing">>
    /\ last.err \notin {"no ranked actions available", Expand("failing").err}
    /\ HypothesisNodes(graph) # {}
    /\ \E nd \in graph.nodes : nd.type = NodeTypeTechnique
    /\ AdvisoryHypothesis.ID \notin NodeIDs(graph)

PlanningOps == {"ExpandAttackPaths", "PlanCampaign"}

\* C12: a call of ExpandAttackPaths or of PlanCampaign leaves the live graph
\* as it was: the node set and the edge list after the call are those before
\* it, for every graph, catalogue, state, objective and configuration.
C12_PlanningLeavesGraph ==
    [][last'.op \in PlanningOps => /\ graph'.nodes = graph.nodes
                                   /\ graph'.edges = graph.edges]_vars

\* an expansion returned a path of two steps, whose second step matched only
\* in the snapshot the first step was applied to, and the live graph holds no
\* node of the kinds the steps produce
C12_Witness ==
    /\ last.op = "ExpandAttackPaths"
    /\ \E i \in 1..Len(last.art) : Len(last.art[i].Steps) = 2
    /\ \A nd \in graph.nodes : nd.type = NodeTypeEvidence

\* one order the binder may hand its classes out in
ReferenceOrder == CHOOSE order \in Orders(actionBinder) : TRUE

\* C14: whatever order the binder hands the classes out in, ExpandAttackPaths
\* (respectively PlanCampaign) on the same graph, catalogue, state and
\* configuration returns the sequence (same steps, same order, same scores)
\* it returns for the reference order.
C14_PlanningIsDeterministic ==
    [][/\ last'.op = "ExpandAttackPaths"
          => last'.art = ExpandAttackPaths(graph, ReferenceOrder, attackPathConfig,
                                           campaign.executions).paths
       /\ last'.op = "PlanCampaign"
          => last'.art = PlanCampaign(graph, ReferenceOrder, last'.args[2], last'.args[3],
                                      campaign.executions).campaigns]_vars

\* a campaign plan of several campaigns, one of them of two steps, made with
\* the classes handed out in an order that is not the order of their ids
C14_Witness ==
    /\ last.op = "PlanCampaign"
    /\ last.args[1] # SortClassesByID(last.args[1])
    /\ Len(last.art) >= 2
    /\ \E i \in 1..Len(last.art) : Len(last.art[i].Steps) = 2

\* the ids of the steps of a path or of a campaign, in order
StepIDs(c) == [i \in 1..Len(c.Steps) |-> c.Steps[i].ActionClassID]

\* C15: every campaign PlanCampaign returns holds each action class id at
\* most once among its steps.
C15_AsStated ==
    last.op = "PlanCampaign"
        => \A i \in 1..Len(last.art) :
               \A j, k \in 1..Len(last.art[i].Steps) :
                   StepIDs(last.art[i])[j] = StepIDs(last.art[i])[k] => j = k

\* C16: with a configured MaxDepth of 1 or more and a configured
\* RiskThreshold of 0 or more, every path ExpandAttackPaths returns has a
\* cumulative risk of at most the configured RiskThreshold.
C16_AsStated ==
    (/\ last.op = "ExpandAttackPaths"
     /\ attackPathConfig.MaxDepth >= 1
     /\ attackPathConfig.RiskThreshold >= 0)
        => \A i \in 1..Len(last.art) : last.art[i].Risk <= attackPathConfig.RiskThreshold

\* the options PlanCampaign was called with, and the options in force
SuppliedOptions == last.args[3]
OptionsInForce == normalizeCampaignOptions(SuppliedOptions)

\* C17 as stated: every campaign PlanCampaign returns has a cumulative risk of
\* at most the RiskTolerance the caller supplied, for every supplied
\* tolerance of 0 or more.
C17_AsStated ==
    (last.op = "PlanCampaign" /\ SuppliedOptions.RiskTolerance >= 0)
        => \A i \in 1..Len(last.art) : last.art[i].Risk <= SuppliedOptions.RiskTolerance

\* C17: every campaign PlanCampaign returns has a cumulative risk of at most
\* the RiskTolerance in force: the supplied one when it is positive, the
\* default of 2.0 when the supplied one is 0 or less.
C17_RiskWithinToleranceInForce ==
    last.op = "PlanCampaign"
        => /\ \A i \in 1..Len(last.art) : last.art[i].Risk <= OptionsInForce.RiskTolerance
           /\ OptionsInForce.RiskTolerance
                 = IF SuppliedOptions.RiskTolerance > 0 THEN SuppliedOptions.RiskTolerance
                   ELSE DefaultCampaignOptions.RiskTolerance

\* a plan under a supplied tolerance of 0.5 over a catalogue with a class of
\* risk 0.9 returned campaigns, none of them with that class
C17_Witness ==
    /\ last.op = "PlanCampaign"
    /\ SuppliedOptions.RiskTolerance = 50
    /\ \E ac \in actionBinder : ac.RiskWeight > 50
    /\ Len(last.art) > 0
    /\ \A i \in 1..Len(last.art) : last.art[i].Risk > 0

\* C18: every campaign PlanCampaign returns has an average step confidence of
\* at least the ConfidenceThreshold in force, and its Confidence field is
\* that average (Confidence counts 1/6000, the steps and the threshold
\* hundredths).
C18_ConfidenceAtLeastThreshold ==
    last.op = "PlanCampaign"
        => \A i \in 1..Len(last.art) :
               /\ totalConfidence(last.art[i].Steps)
                     >= OptionsInForce.ConfidenceThreshold * Len(last.art[i].Steps)
               /\ last.art[i].Confidence * Len(last.art[i].Steps)
                     = 60 * totalConfidence(last.art[i].Steps)

\* a plan under a threshold of 0.6 returned only campaigns of two or more
\* steps, one of them with a step of a confidence below the threshold
C18_Witness ==
    /\ last.op = "PlanCampaign"
    /\ OptionsInForce.ConfidenceThreshold = 60
    /\ \E i \in 1..Len(last.art) :
           \E j \in 1..Len(last.art[i].Steps) : last.art[i].Steps[j].Confidence < 60
    /\ \A i \in 1..Len(last.art) : Len(last.art[i].Steps) > 1

\* the place of a phase in the lattice, and whether candidate is the phase
\* current or the one right after it
PhaseIndex(p) == CHOOSE i \in 1..Len(phaseOrder) : phaseOrder[i] = p
SameOrNextPhase(current, candidate) == PhaseIndex(candidate) - PhaseIndex(current) \in {0, 1}

\* the phase of the state the planners were called in
CurrentPhase == phaseForState(campaign.executions)

\* the phases of the steps of a returned attack path, by their classes
PathPhases(path) == [j \in 1..Len(path.Steps) |-> ClassByID(path.Steps[j].ActionClassID).Phase]

\* the phases of the steps of a returned campaign
CampaignPhases(c) == [j \in 1..Len(c.Steps) |-> c.Steps[j].Phase]

\* every phase is the same as or right after the one before it, the first
\* one the same as or right after root
FollowsParent(root, phases) ==
    \A j \in 1..Len(phases) :
        SameOrNextPhase(IF j = 1 THEN root ELSE phases[j - 1], phases[j])

\* C19 as stated: the phase of every step of every returned attack path and
\* campaign is the phase of the preceding step or its immediate successor,
\* and for the first step the current phase of the state or its successor.
C19_AsStated ==
    /\ last.op = "ExpandAttackPaths"
          => \A i \in 1..Len(last.art) : FollowsParent(CurrentPhase, PathPhases(last.art[i]))
    /\ last.op = "PlanCampaign"
          => \A i \in 1..Len(last.art) : FollowsParent(CurrentPhase, CampaignPhases(last.art[i]))

\* C19: the phase of every step of a returned attack path is the current
\* phase of the state or its immediate successor; the phase of every step of
\* a returned campaign is the phase of the preceding step or its immediate
\* successor, and for the first step the current phase or its successor;
\* phaseAllowed holds for the same phase and the immediate successor only.
C19_PhaseOrdering ==
    /\ last.op = "ExpandAttackPaths"
          => \A i \in 1..Len(last.art) :
                 \A j \in 1..Len(last.art[i].Steps) :
                     SameOrNextPhase(CurrentPhase, PathPhases(last.art[i])[j])
    /\ last.op = "PlanCampaign"
          => \A i \in 1..Len(last.art) : FollowsParent(CurrentPhase, CampaignPhases(last.art[i]))
    /\ \A p, q \in Range(phaseOrder) : phaseAllowed(p, q) <=> SameOrNextPhase(p, q)

\* an attack path was returned whose second step is of the current phase
\* and follows a step of the next phase
C19_Witness ==
    /\ last.op = "ExpandAttackPaths"
    /\ \E i \in 1..Len(last.art) :
           /\ Len(last.art[i].Steps) >= 2
           /\ PathPhases(last.art[i])[1] = PhaseInitialAccess
           /\ PathPhases(last.art[i])[2] = CurrentPhase
           /\ CurrentPhase = PhaseRecon

\* lexicographic order of two id lists of the same length
LexLess(a, b) ==
    \E k \in 1..Len(a) :
        /\ \A m \in 1..(k - 1) : a[m] = b[m]
        /\ ClassRank(a[k]) < ClassRank(b[k])

\* the order of the statement: score descending, then fewer steps, then the
\* lexicographically smaller id list
StatedBefore(a, b) ==
    \/ a.Score > b.Score
    \/ a.Score = b.Score /\ Len(a.Steps) < Len(b.Steps)
    \/ a.Score = b.Score /\ Len(a.Steps) = Len(b.Steps) /\ LexLess(StepIDs(a), StepIDs(b))

\* C20 as stated: the sequences ExpandAttackPaths and PlanCampaign return are
\* sorted by score descending, entries of equal score by fewer steps first,
\* entries of equal score and length by the lexicographically smaller list
\* of action class ids first.
C20_AsStated ==
    last.op \in PlanningOps
        => \A i, j \in 1..Len(last.art) : i < j => StatedBefore(last.art[i], last.art[j])

\* C20: the paths ExpandAttackPaths returns are sorted by score descending,
\* paths of equal score by fewer steps first; the campaigns PlanCampaign
\* returns are sorted by score descending, campaigns of equal score by the
\* text "[id id ...]" of their id lists, smaller text first: among lists of
\* one length the lexicographically smaller, and a list after every list
\* that extends it.
C20_ResultsSorted ==
    /\ last.op = "ExpandAttackPaths"
          => \A i, j \in 1..Len(last.art) :
                 i < j => \/ last.art[i].Score > last.art[j].Score
                          \/ /\ last.art[i].Score = last.art[j].Score
                             /\ Len(last.art[i].Steps) <= Len(last.art[j].Steps)
    /\ last.op = "PlanCampaign"
          => \A i, j \in 1..Len(last.art) :
                 i < j => \/ last.art[i].Score > last.art[j].Score
                          \/ /\ last.art[i].Score = last.art[j].Score
                             /\ KeyLess(StepIDs(last.art[i]), StepIDs(last.art[j]))

\* a plan returned two campaigns of equal score, the one of more steps first
C20_Witness ==
    /\ last.op = "PlanCampaign"
    /\ \E i, j \in 1..Len(last.art) :
           /\ i < j
           /\ last.art[i].Score = last.art[j].Score
           /\ Len(last.art[i].Steps) > Len(last.art[j].Steps)

\* the campaigns the call would return under the same options with a TopN of
\* twelve
Untruncated ==
    PlanCampaign(graph, last.args[1], last.args[2], [SuppliedOptions EXCEPT !.TopN = 12],
                 campaign.executions).campaigns

MaxDepthInForce ==
    IF attackPathConfig.MaxDepth >= 1 THEN attackPathConfig.MaxDepth
    ELSE DefaultAttackPathConfig.MaxDepth

\* C22: every path ExpandAttackPaths returns has at least 1 step and at most
\* MaxDepth steps, MaxDepth being the configured one whenever that is 1 or
\* more.
C22_PathLengthWithinDepth ==
    last.op = "ExpandAttackPaths"
        => \A i \in 1..Len(last.art) :
               /\ Len(last.art[i].Steps) >= 1
               /\ Len(last.art[i].Steps) <= MaxDepthInForce

\* an expansion under a configured MaxDepth of 1 returned paths, all of one
\* step, where the same expansion one level deeper returns a path of two
C22_Witness ==
    /\ last.op = "ExpandAttackPaths"
    /\ attackPathConfig.MaxDepth = 1
    /\ Len(last.art) > 0
    /\ \E p \in Range(ExpandAttackPaths(graph, last.args[1],
                                         [attackPathConfig EXCEPT !.MaxDepth = 2],
                                         campaign.executions).paths) : Len(p.Steps) = 2

\* a reader's call is under way
ReaderCalling(p) == mu.pc[p] # "idle"

\* C23: every call of Score, Level, Halted and Snapshot made while an Add
\* runs returns, under every interleaving.
C23_AsStated == \A p \in TrackerReaders : ReaderCalling(p) ~> ~ReaderCalling(p)

\* the level a Level call returned
ReturnedLevel == last.art[1].Level[1]

\* C25: with the thresholds compared as exact rationals, Level returns Low
\* iff score < max/2, Medium iff max/2 <= score < 3*max/4, High iff
\* 3*max/4 <= score < max, and Critical iff score = max.
C25_AsStated ==
    last.op = "Level"
        => LET s == exposure.score
               m == exposure.maxScore
           IN  /\ ReturnedLevel = LevelLow <=> 2 * s < m
               /\ ReturnedLevel = LevelMedium <=> (m <= 2 * s /\ 4 * s < 3 * m)
               /\ ReturnedLevel = LevelHigh <=> (3 * m <= 4 * s /\ s < m)
               /\ ReturnedLevel = LevelCritical <=> s = m

\* the planning phase after the step
NextCurrentPhase == phaseForState(campaign'.executions)

\* C24: over any sequence of recorded executions the planning phase never
\* moves backward, and every change of it is a move to the immediate next
\* phase of OperationPhase.Next().
C24_AsStated ==
    [][/\ PhaseIndex(NextCurrentPhase) >= PhaseIndex(CurrentPhase)
       /\ NextCurrentPhase # CurrentPhase
              => /\ PhaseNext(CurrentPhase).ok
                 /\ PhaseNext(CurrentPhase).phase = NextCurrentPhase]_vars

\* C24, amended: the planning phase never moves backward, and its only
\* changes are from Recon to LateralMovement and from LateralMovement to
\* Objective, each skipping the phases between.
C24_PhaseNeverMovesBackward ==
    [][/\ PhaseIndex(NextCurrentPhase) >= PhaseIndex(CurrentPhase)
       /\ NextCurrentPhase # CurrentPhase
              => \/ /\ CurrentPhase = PhaseRecon
                    /\ NextCurrentPhase = PhaseLateralMovement
                 \/ /\ CurrentPhase = PhaseLateralMovement
                    /\ NextCurrentPhase = PhaseObjective]_vars

\* the fifth execution was recorded: the planning phase has moved twice and
\* stands at Objective
C24_Witness ==
    /\ last.op \in {"RecordExecution", "Run"}
    /\ last.err = OK
    /\ campaign.executions = 5
    /\ CurrentPhase = PhaseObjective

\* both endpoints of every stored edge are ids of stored nodes
EndpointsStored ==
    \A i \in 1..Len(graph.edges) :
        /\ graph.edges[i].from \in NodeIDs(graph)
        /\ graph.edges[i].to \in NodeIDs(graph)

\* an AddEdge step whose edge names an endpoint that is not a stored node
UnknownEndpointStep ==
    /\ last'.op = "AddEdge"
    /\ \/ last'.args[1].from \notin NodeIDs(graph)
       \/ last'.args[1].to \notin NodeIDs(graph)

\* C26: AddEdge with a From or To that is not a stored node returns an error
\* and leaves the nodes and the edge list as they were; after any sequence
\* of UpsertNode and AddEdge calls both endpoints of every stored edge are
\* ids of stored nodes.
C26_UnknownEndpointRefused ==
    /\ []EndpointsStored
    /\ [][UnknownEndpointStep => last'.err # OK /\ graph' = graph]_vars

\* an AddEdge whose To is not stored was refused on a graph that holds its
\* From and an edge already
C26_Witness ==
    /\ last.op = "AddEdge"
    /\ last.err = "to node not found"
    /\ last.args[1].from \in NodeIDs(graph)
    /\ last.args[1].to \notin NodeIDs(graph)
    /\ Len(graph.edges) = 1

\* the artifact held before and after the step
HeldArtifact == last.art[1].artifact
HeldArtifactAfter == last'.art[1].artifact

\* none of the eight signed fields differs between a and b
SignedFieldsSame(a, b) == \A field \in SignedFields : a[field] = b[field]

\* C27: Sign on a valid unsigned artifact succeeds and makes Verify succeed;
\* a second Sign fails and leaves Integrity as it was; and after Sign,
\* Verify succeeds if and only if none of ArtifactID, CampaignID,
\* TechniqueID, Target, ExecutedAt, Success, Output and ExposureScore has
\* been changed.
C27_AsStated ==
    /\ [][last'.op = "Sign" /\ HeldArtifact.Integrity = <<>>
              /\ ArtifactValidate(HeldArtifact) = OK
            => last'.err = OK /\ ArtifactVerify(HeldArtifactAfter).ok]_vars
    /\ [][last'.op = "Sign" /\ HeldArtifact.Integrity # <<>>
            => last'.err # OK /\ HeldArtifactAfter.Integrity = HeldArtifact.Integrity]_vars
    /\ [][last'.op = "Verify" /\ last.art[1].signed # None
            => (last'.art[1].verified = Some(TRUE)
                   <=> SignedFieldsSame(HeldArtifact, last.art[1].signed[1]))]_vars

\* the classes of the steps of a returned path
PathClasses(path) == [j \in 1..Len(path.Steps) |-> ClassByID(path.Steps[j].ActionClassID)]

\* the node and edge kinds the counting snapshot of the live graph holds
\* once the kinds produced by steps 1..i-1 of the path are added
NodeKindsBefore(path, i) ==
    {t \in NodeTypes : snapshotFromGraph(graph).nodeCounts[t] > 0}
        \cup UNION {Range(PathClasses(path)[j].ProducesNodes) : j \in 1..(i - 1)}
EdgeKindsBefore(path, i) ==
    {t \in EdgeTypes : snapshotFromGraph(graph).edgeCounts[t] > 0}
        \cup UNION {Range(PathClasses(path)[j].ProducesEdges) : j \in 1..(i - 1)}

FeasibleStep(path, i) ==
    \A k \in 1..Len(PathClasses(path)[i].Preconditions) :
        /\ Range(PathClasses(path)[i].Preconditions[k].RequiredNodeTypes)
               \subseteq NodeKindsBefore(path, i)
        /\ Range(PathClasses(path)[i].Preconditions[k].RequiredEdges)
               \subseteq EdgeKindsBefore(path, i)

\* the configured policy admits the class: the cautious policy refuses the
\* classes of risk 0.5 and more, the others refuse none
PolicyClean(ac) ==
    EffectivePathConfig(attackPathConfig).ROEPolicy = "cautious" => ac.RiskWeight < 50

\* C28: every returned attack path is feasible and policy-clean step by
\* step: the preconditions of step i are satisfied by the counting snapshot
\* of the live graph with the kinds produced by steps 1..i-1 added, and the
\* policy admits the class of step i.
C28_PathsFeasibleAndPolicyClean ==
    last.op = "ExpandAttackPaths"
        => \A n \in 1..Len(last.art) : \A i \in 1..Len(last.art[n].Steps) :
               /\ FeasibleStep(last.art[n], i)
               /\ PolicyClean(PathClasses(last.art[n])[i])

\* a returned path has a step whose preconditions the live graph alone does
\* not satisfy: they hold by what the steps before it produce
C28_Witness ==
    /\ last.op = "ExpandAttackPaths"
    /\ \E n \in 1..Len(last.art) : \E i \in 2..Len(last.art[n].Steps) :
           ~matchSnapshotPatterns(snapshotFromGraph(graph),
                                  PathClasses(last.art[n])[i].Preconditions)

\* C29: no path ExpandAttackPaths returns holds the same action class id
\* twice.
C29_NoRepeatedClass ==
    last.op = "ExpandAttackPaths"
        => \A n \in 1..Len(last.art) :
               \A i, j \in 1..Len(last.art[n].Steps) :
                   i # j => last.art[n].Steps[i].ActionClassID
                               # last.art[n].Steps[j].ActionClassID

\* a returned path of two steps or more, under a depth that allows one more,
\* whose first class has its preconditions satisfied behind the last step
C29_Witness ==
    /\ last.op = "ExpandAttackPaths"
    /\ \E n \in 1..Len(last.art) :
           /\ Len(last.art[n].Steps) >= 2
           /\ MaxDepthInForce >= 3
           /\ FeasibleStep([Steps |-> last.art[n].Steps \o <<last.art[n].Steps[1]>>],
                           Len(last.art[n].Steps) + 1)

\* how many of the hypotheses MatchAndGenerate returned are hyp-ac-<id>
EmittedFor(id) ==
    Cardinality({n \in 1..Len(last.art) : last.art[n].ID = ActionHypothesisID(id)})

\* the class is in the planning phase and the counting snapshot of the graph
\* holds every kind its preconditions require
Bindable(ac) ==
    /\ ac.Phase = CurrentPhase
    /\ \A k \in 1..Len(ac.Preconditions) :
           /\ \A t \in Range(ac.Preconditions[k].RequiredNodeTypes) :
                  snapshotFromGraph(graph).nodeCounts[t] > 0
           /\ \A t \in Range(ac.Preconditions[k].RequiredEdges) :
                  snapshotFromGraph(graph).edgeCounts[t] > 0

\* C30: for a graph and a state that are not nil, MatchAndGenerate emits the
\* hypothesis hyp-ac-<id> for a bound class if and only if the phase of the
\* class equals phaseForState(state) and all its preconditions match the
\* graph; it emits exactly one hypothesis for such a class, none for a class
\* of another phase, and nothing else.
C30_OneHypothesisPerBindableClass ==
    last.op = "MatchAndGenerate"
        => /\ \A ac \in actionBinder : EmittedFor(ac.ID) = IF Bindable(ac) THEN 1 ELSE 0
           /\ Len(last.art) = Cardinality({ac \in actionBinder : Bindable(ac)})

\* a call that emitted a hypothesis for one class and none for a class of the
\* planning phase whose preconditions fail, nor for a class of the next phase
\* whose preconditions hold
C30_Witness ==
    /\ last.op = "MatchAndGenerate"
    /\ Len(last.art) >= 1
    /\ \E ac \in actionBinder :
           /\ ac.Phase = CurrentPhase
           /\ ~Bindable(ac)
    /\ \E ac \in actionBinder :
           /\ phaseAllowed(CurrentPhase, ac.Phase)
           /\ ac.Phase # CurrentPhase
           /\ MatchPatterns(graph, ac.Preconditions)
           /\ EmittedFor(ac.ID) = 0

\* every node kind and every edge kind the patterns require is in the graph
\* at least once
KindsPresent(patterns) ==
    \A k \in 1..Len(patterns) :
        /\ \A t \in Range(patterns[k].RequiredNodeTypes) : \E nd \in graph.nodes : nd.type = t
        /\ \A t \in Range(patterns[k].RequiredEdges) :
               \E i \in 1..Len(graph.edges) : graph.edges[i].type = t

Candidates ==
    {id \in Range(TechniquesToScore(last.args[2], effects)) : id \in DOMAIN effects}

\* the final score of a candidate: its base score plus a tenth of the best
\* score of the expanded paths that start with its class
FinalScore(id) ==
    ScoreTechnique(effects[id]) * 1200
        + (IF BonusPaths(last.args[3], effects[id].ActionClassID) # {}
           THEN BestByAction(last.args[3], effects[id].ActionClassID) ELSE 0)

\* C32: PlanNextAction selects the candidate with the highest final score
\* among the allowed techniques that have a registered effect, ties broken
\* by the smaller technique id, for every TopN; the ranked list is sorted by
\* the final score descending with the selected action first; and the call
\* fails with the no-candidates error iff there is no candidate.
C32_AsStated ==
    last.op = "PlanNextAction"
        => /\ last.err = "no ranked actions available" <=> Candidates = {}
           /\ last.err = OK
                 => /\ last.art[1].Selected = last.art[1].Ranked[1]
                    /\ last.art[1].Selected.TechniqueID \in Candidates
                    /\ \A id \in Candidates :
                           \/ FinalScore(last.art[1].Selected.TechniqueID) > FinalScore(id)
                           \/ /\ FinalScore(last.art[1].Selected.TechniqueID) = FinalScore(id)
                              /\ TechRank(last.art[1].Selected.TechniqueID) <= TechRank(id)
                    /\ \A i \in 1..Len(last.art[1].Ranked) :
                           last.art[1].Ranked[i].Score
                               = FinalScore(last.art[1].Ranked[i].TechniqueID)
                    /\ \A i \in 1..(Len(last.art[1].Ranked) - 1) :
                           last.art[1].Ranked[i].Score >= last.art[1].Ranked[i + 1].Score

\* C35: in every state of a tracker made by New, Halted() is true iff the
\* score has reached maxScore, and iff Level() is critical.
C35_HaltedIffCritical ==
    /\ exposure.halted <=> exposure.score >= exposure.maxScore
    /\ exposure.halted <=> TrackerLevel(exposure) = LevelCritical

\* an Add has just taken the tracker to critical, and it is halted
C35_Witness ==
    /\ last.op = "Add" /\ last.err = OK
    /\ TrackerLevel(exposure) = LevelCritical /\ exposure.halted

\* C34: SimulateCampaignCycles(n) returns a trace whose StateProgression,
\* PhaseTransitions and ConfidenceEvolution have exactly n entries each, none
\* when n <= 0, and every entry of PhaseTransitions is the current phase of
\* the engine's state (phaseForState) at that cycle.
C34_AsStated ==
    last.op = "SimulateCampaignCycles"
        => /\ last.err = OK
           /\ \A f \in {"StateProgression", "PhaseTransitions", "ConfidenceEvolution"} :
                  Len(last.art[1][f]) = (IF last.args[1] <= 0 THEN 0 ELSE last.args[1])
           /\ \A i \in 1..Len(last.art[1].PhaseTransitions) :
                  last.art[1].PhaseTransitions[i]
                      = phaseForState(IF campaign.nil THEN 0 ELSE campaign.executions)

\* the number of campaigns the call just made returns when its beam width
\* is w and everything else is the same
CampaignsAtWidth(w) ==
    Len(PlanCampaign(graph, last.args[1], last.args[2],
                     [last.args[3] EXCEPT !.BeamWidth = w], campaign.executions).campaigns)

C36_ScoreArtifactsAndExecutionsAgree ==
    /\ [](/\ exposure.score = executionExposure * campaign.executions
          /\ executionExposure * campaign.executions < exposure.maxScore + executionExposure)
    /\ [][last'.op = "Run"
            => /\ campaign'.executions \in {campaign.executions, campaign.executions + 1}
               /\ campaign'.executions = campaign.executions + 1
                     <=> (last'.art # None /\ ArtifactVerify(last'.art[1]).ok)]_vars

\* a Run returned a signed artifact and counted the execution that took the
\* score past a limit that is not a multiple of executionExposure
C36_Witness ==
    /\ last.op = "Run" /\ last.art # None
    /\ campaign.executions = 2 /\ exposure.score = 20 /\ exposure.maxScore = 15

\* the errors of roe.Enforce
RoeViolations ==
    {"ROE violation: nil intent contract", "ROE violation: empty technique ID",
     "ROE violation: empty target", "ROE violation: technique not permitted by policy",
     "ROE violation: technique not declared in intent",
     "ROE violation: target not declared in intent",
     "ROE violation: execution outside intent window"}

\* C37, as stated: a Run that ROE enforcement rejects leaves the campaign
\* status, the execution counter, the exposure score and the reasoning graph
\* as they were before the call, whatever the campaign status on entry.
C37_AsStated ==
    [][(last'.op = "Run" /\ last'.err \in RoeViolations)
          => /\ campaign'.status = campaign.status
             /\ campaign'.executions = campaign.executions
             /\ exposure'.score = exposure.score
             /\ xgraph' = xgraph]_vars

\* the graph a second PlanNextAction with the query and the state of the
\* call just made leaves
GraphAfterSecondPlan ==
    PlanNextActionBound(graph, last.args[1], attackPathConfig, campaign.executions,
                        last.args[2], effects).g

\* C38, as stated: with no evidence ingested in between, a second
\* PlanNextAction with the same query and state adds no node and no edge to
\* the graph the first call left.
C38_AsStated ==
    (last.op = "PlanNextAction" /\ last.err = OK)
        => /\ GraphAfterSecondPlan.nodes = graph.nodes
           /\ GraphAfterSecondPlan.edges = graph.edges

\* the deterministic hypothesis nodes: those with an id hyp-<n>-<evidence id>
DeterministicHypotheses == {nd \in HypothesisNodes(graph) : nd.id.k = "hyp"}

\* the deterministic hypothesis nodes that evidence node ev supports
SupportedBy(ev) ==
    {h \in DeterministicHypotheses :
        \E i \in 1..Len(graph.edges) :
            /\ graph.edges[i].from = ev.id /\ graph.edges[i].to = h.id
            /\ graph.edges[i].type = EdgeTypeSupports}

\* C39, as stated: after any interleaving of IngestEvidence and
\* PlanNextAction calls each evidence node supports at most one deterministic
\* hypothesis node, and the deterministic hypothesis nodes are no more than
\* the evidence nodes.
C39_AsStated ==
    /\ \A ev \in {nd \in graph.nodes : nd.type = NodeTypeEvidence} :
           Cardinality(SupportedBy(ev)) <= 1
    /\ Cardinality(DeterministicHypotheses)
          <= Cardinality({nd \in graph.nodes : nd.type = NodeTypeEvidence})

\* the classes of the steps of a returned path or campaign
PathClassesOf(steps) == [i \in 1..Len(steps) |-> ClassByID(steps[i].ActionClassID)]

\* the score scorePath gives path p: unlockedActionCount with a nil cache
UncachedPathScore(p, universe, cfg) ==
    PathScore(p.Steps, PathClassesOf(p.Steps), p.Objective, cfg,
              IF Len(universe) = 0 THEN 0
              ELSE CountUnlocked(PathClassesOf(p.Steps), universe))

\* the score projectCampaignCandidate gives campaign c when its path is
\* scored with a nil cache
UncachedCampaignScore(c, universe, cfg) ==
    PathScore([i \in 1..Len(c.Steps) |->
                  [ActionClassID |-> c.Steps[i].ActionClassID,
                   Confidence |-> c.Steps[i].Confidence]],
              PathClassesOf(c.Steps), c.Objective, DefaultAttackPathConfig,
              CountUnlocked(PathClassesOf(c.Steps), universe))
      + ((objectiveProximityScore(
              objectiveDistance(PathClassesOf(c.Steps), c.Objective, Len(c.Steps)),
              ClassByID(c.Steps[Len(c.Steps)].ActionClassID), c.Objective)
            * cfg.ObjectiveBiasWeight) \div 100)

\* C40, as stated: within one ExpandAttackPaths or PlanCampaign run the
\* shared unlock cache answers what unlockedActionCount computes without a
\* cache, so the score of every path and campaign returned is the score it
\* gets when it is scored alone.
C40_AsStated ==
    /\ (last.op = "ExpandAttackPaths" /\ last.err = OK)
          => \A i \in 1..Len(last.art) :
                last.art[i].Score
                   = UncachedPathScore(last.art[i], last.args[1],
                                       EffectivePathConfig(attackPathConfig))
    /\ (last.op = "PlanCampaign" /\ last.err = OK)
          => \A i \in 1..Len(last.art) :
                last.art[i].Score
                   = UncachedCampaignScore(last.art[i], last.args[1],
                                           normalizeCampaignOptions(last.args[3]))

=============================================================================
